---- MODULE Spec2Model ----
(***************************************************************************)
(* Booking lifecycle of the Lavial coach-ticketing backend: createBooking, *)
(* createPaymentSheet, the Stripe webhook (payment succeeded / failed),    *)
(* validatePromoCode, validateQRCode and useTicket, over the Route,        *)
(* Booking, Ticket and PromoCode collections.                              *)
(*                                                                         *)
(* Money is counted in minor units (1/100 of the currency unit), instants  *)
(* in hours since the epoch (1970-01-01T00:00Z, a Thursday).  An optional  *)
(* field is a sequence of length 0 (absent) or 1 (present).                *)
(***************************************************************************)
EXTENDS Integers, Sequences, FiniteSets, TLC

\* ------------------------------------------------------------------ bounds
\* Bookings the booking endpoint may create.
MaxBookings == 1
\* Payment intents createPaymentSheet may create.
MaxIntents == 1
\* Times the clock advances (by ClockStep hours each).
MaxTicks == 1
\* Confirmed payments counted on one promo code.
MaxUsage == 2
\* Bookings and concurrent webhook deliveries of the interleaved specification.
MaxConcBookings == 1
MaxDeliveries == 2
\* Bookings of the shared-promo specification.
MaxPromoBookings == 2
\* Concurrent useTicket calls of the interleaved specification.
MaxRedemptions == 2

\* ------------------------------------------------------------ basic values
None == <<>>
Some(v) == <<v>>
IsSome(o) == Len(o) > 0
Val(o) == o[1]

Max(a, b) == IF a >= b THEN a ELSE b
Min(a, b) == IF a <= b THEN a ELSE b
Abs(a) == IF a >= 0 THEN a ELSE 0 - a

HoursPerDay == 24
NoonHour == 12
\* The clock advances by a day at a time.
ClockStep == HoursPerDay
\* getUTCDay() of the epoch day.
EpochWeekday == 4
DaysPerWeek == 7

\* Math.round(n / d) for n >= 0, d > 0 (half rounds up).
RoundDiv(n, d) == (2 * n + d) \div (2 * d)

\* ------------------------------------------------------------- date helpers
\* A Date's UTC hour of day and UTC day number.
getUTCHours(t) == t % HoursPerDay
UTCDayNumber(t) == t \div HoursPerDay

\* normalizeTravelDate rolling only after 12:00 UTC, not at it.
normalizeTravelDate_RollAfterNoon(t) ==
  LET day == IF getUTCHours(t) > NoonHour
             THEN UTCDayNumber(t) + 1
             ELSE UTCDayNumber(t)
  IN  day * HoursPerDay

\* normalizeTravelDate: roll to the next day from 12:00 UTC on, then
\* truncate to UTC midnight.
normalizeTravelDate(t) ==
  LET day == IF getUTCHours(t) >= NoonHour
             THEN UTCDayNumber(t) + 1
             ELSE UTCDayNumber(t)
  IN  day * HoursPerDay

\* formatDateKey: the calendar day (YYYY-MM-DD) of the normalized instant,
\* held as its day number.
formatDateKey(t) == UTCDayNumber(normalizeTravelDate(t))

\* Date.getUTCDay(): 0 = Sunday .. 6 = Saturday.
getUTCDay(t) == (UTCDayNumber(t) + EpochWeekday) % DaysPerWeek

\* ------------------------------------------------------------------ pricing
MinFee == 300
FeePerMille == 15

\* The fee without its minimum.
ServiceFee_NoMinimum(subtotal) == RoundDiv(subtotal * FeePerMille, 1000)

\* The fee rounded exactly: max(3, round(subtotal * 0.015, 2)).
ServiceFee_ExactRounding(subtotal) ==
  Max(MinFee, RoundDiv(subtotal * FeePerMille, 1000))

\* Math.round on a product of doubles. The product n / d is computed in
\* IEEE 754 binary64; away from an exact half the error is far below the
\* distance to the half, at an exact half the computed product can lie just
\* below it (short), and Math.round then gives the lower integer.
MathRound(n, d, short) ==
  IF short /\ (2 * n) % (2 * d) = d THEN n \div d ELSE RoundDiv(n, d)

\* The subtotals up to 400.00 whose fee product subtotal * 0.015 * 100,
\* an exact half in decimal, is below the half in binary64
\* (201 * 0.015 * 100 = 301.49999999999994).
FeeHalfFallsShort ==
  {1100, 1500, 1900, 3700, 6100, 6700, 6900, 8100, 8300, 8500, 9700, 11300,
   12900, 13700, 14100, 14500, 15500, 15900, 16300, 16900, 20100, 21900,
   23300, 25100, 26500, 27100, 27900, 28500, 29300, 29900, 30100, 30700,
   31300, 31500, 32100, 32900, 33500, 36300, 37700}

\* The <<subtotal, discountPercent>> pairs, subtotal up to 3.00 and percent
\* 5, 10 or 15, whose discount product subtotal * (percent / 100) * 100 is
\* below an exact half in binary64 (1.5 * (15 / 100) * 100 =
\* 22.499999999999996).
DiscountHalfFallsShort ==
  {<<70, 5>>, <<290, 5>>, <<35, 10>>, <<145, 10>>, <<150, 15>>, <<190, 15>>}

\* fees = Math.max(3, Math.round(subtotal * 0.015 * 100) / 100)
ServiceFee(subtotal) ==
  Max(MinFee, MathRound(subtotal * FeePerMille, 1000,
                        subtotal \in FeeHalfFallsShort))

\* The discount a usable promo code gives on a subtotal.
PromoDiscount(promo, subtotal) ==
  IF promo.discountPercent > 0
  THEN LET d == MathRound(subtotal * promo.discountPercent, 100,
                          <<subtotal, promo.discountPercent>>
                            \in DiscountHalfFallsShort)
       IN  IF promo.maxDiscount > 0 THEN Min(d, promo.maxDiscount) ELSE d
  ELSE IF promo.discountFixed > 0 THEN promo.discountFixed ELSE 0

\* The student discount as the client asks for it, unclamped.
StudentDiscountAmount_Trusted(route, requested) ==
  IF IsSome(requested) /\ Val(requested) > 0
       /\ IsSome(route.studentDiscount) /\ Val(route.studentDiscount) > 0
  THEN Val(requested)
  ELSE 0

\* The student discount applied for a requested amount (absent or >= 0).
StudentDiscountAmount(route, requested) ==
  IF IsSome(requested) /\ Val(requested) > 0
       /\ IsSome(route.studentDiscount) /\ Val(route.studentDiscount) > 0
  THEN Min(Val(requested), Val(route.studentDiscount))
  ELSE 0

\* The total without its floor at 0.
BookingTotal_NoFloor(subtotal, fees, discount, studentDiscountAmount) ==
  subtotal + fees - discount - studentDiscountAmount

\* The total with the fee left out.
BookingTotal_NoFees(subtotal, fees, discount, studentDiscountAmount) ==
  Max(0, subtotal - discount - studentDiscountAmount)

\* total = Math.max(0, subtotal + fees - discount - studentDiscountAmount)
BookingTotal(subtotal, fees, discount, studentDiscountAmount) ==
  Max(0, subtotal + fees - discount - studentDiscountAmount)

\* String.toUpperCase() on the promo codes and currencies in use.
toUpperCase(s) ==
  CASE s = "save10" -> "SAVE10"
    [] s = "fixed5" -> "FIXED5"
    [] s = "ron" -> "RON"
    [] s = "eur" -> "EUR"
    [] s = "usd" -> "USD"
    [] OTHER -> s

\* String.toLowerCase() on the currencies in use.
toLowerCase(s) ==
  CASE s = "RON" -> "ron"
    [] s = "EUR" -> "eur"
    [] OTHER -> s

\* --------------------------------------------------------------- the state
VARIABLES
  routes,      \* Route collection, in insertion order
  promos,      \* PromoCode collection, keyed by code
  bookings,    \* Booking collection, in insertion order (bookingId = index)
  tickets,     \* Ticket collection, in insertion order
  customers,   \* customers created at the payment provider
  intents,     \* payment intents created at the payment provider
  now,         \* the server clock (hours since the epoch)
  response,    \* the last response sent (or handler outcome logged)
  deliveries,  \* webhook deliveries in flight (interleaved specification)
  redemptions  \* useTicket calls in flight (interleaved specification)

vars == <<routes, promos, bookings, tickets, customers, intents, now,
          response, deliveries, redemptions>>

\* The seeded collections.
SeedRoutes ==
  << [from |-> "A", to |-> "B", basePrice |-> 200, currency |-> "RON",
      departureTime |-> "08:00", arrivalTime |-> "12:00", active |-> TRUE,
      availableDays |-> {}, studentDiscount |-> Some(1000),
      closedDates |-> {}],
     [from |-> "A", to |-> "C", basePrice |-> 30000, currency |-> "EUR",
      departureTime |-> "06:00", arrivalTime |-> "18:00", active |-> TRUE,
      availableDays |-> {4, 5}, studentDiscount |-> None,
      closedDates |-> {1}],
     [from |-> "C", to |-> "A", basePrice |-> 30000, currency |-> "EUR",
      departureTime |-> "08:00", arrivalTime |-> "20:00", active |-> FALSE,
      availableDays |-> {}, studentDiscount |-> None,
      closedDates |-> {}] >>

SeedPromos ==
  [c \in {"SAVE10", "FIXED5"} |->
     IF c = "SAVE10"
     THEN [code |-> "SAVE10", discountPercent |-> 10, discountFixed |-> 0,
           maxDiscount |-> 2000, validFrom |-> 0, validUntil |-> 1000,
           usageLimit |-> 1, usageCount |-> 0, active |-> TRUE]
     ELSE [code |-> "FIXED5", discountPercent |-> 0, discountFixed |-> 500,
           maxDiscount |-> 0, validFrom |-> 0, validUntil |-> 12,
           usageLimit |-> 0, usageCount |-> 0, active |-> TRUE]]

\* A response: the operation answered, the HTTP status and the JSON body.
Reply(op, code, body) == [op |-> op, code |-> code, body |-> body]

Init ==
  /\ routes = SeedRoutes
  /\ promos = SeedPromos
  /\ bookings = <<>>
  /\ tickets = <<>>
  /\ customers = <<>>
  /\ intents = <<>>
  /\ now = 0
  /\ response = Reply("none", 0, [error |-> ""])
  /\ deliveries = <<>>
  /\ redemptions = <<>>

\* -------------------------------------------------------- collection lookups
\* The least index of a non-empty set of indices, or 0: findOne returns
\* the first matching document.
FirstOf(hits) ==
  IF hits = {} THEN 0 ELSE CHOOSE i \in hits : \A j \in hits : i <= j

\* The route lookup without its filter on active.
FindRoute_AnyRoute(from, to) ==
  FirstOf({i \in 1..Len(routes) :
             routes[i].from = from /\ routes[i].to = to})

\* Route.findOne({from, to, active: true})
FindRoute(from, to) ==
  FirstOf({i \in 1..Len(routes) :
             routes[i].from = from /\ routes[i].to = to /\ routes[i].active})

\* PromoCode.findOne({code, active: true, validFrom <= now, validUntil >= now})
FindUsablePromo(code) ==
  IF /\ code \in DOMAIN promos
     /\ promos[code].active
     /\ promos[code].validFrom <= now
     /\ promos[code].validUntil >= now
  THEN Some(promos[code])
  ELSE None

\* ------------------------------------------------------------- createBooking
\* Availability without the closed-date check.
Availability_NoClosedDates(route, date) ==
  LET travelDate == normalizeTravelDate(date)
      dayOfWeek == getUTCDay(travelDate)
  IN  IF route.availableDays # {} /\ dayOfWeek \notin route.availableDays
      THEN "Route not available on selected date"
      ELSE "ok"

\* Availability reading an empty availableDays as "no day available".
Availability_EmptyMeansNone(route, date) ==
  LET travelDate == normalizeTravelDate(date)
      dayOfWeek == getUTCDay(travelDate)
  IN  IF dayOfWeek \notin route.availableDays
      THEN "Route not available on selected date"
      ELSE IF formatDateKey(travelDate) \in route.closedDates
      THEN "Route closed on selected date"
      ELSE "ok"

\* The availability decision for a route and a requested instant.
Availability(route, date) ==
  LET travelDate == normalizeTravelDate(date)
      dayOfWeek == getUTCDay(travelDate)
  IN  IF route.availableDays # {} /\ dayOfWeek \notin route.availableDays
      THEN "Route not available on selected date"
      ELSE IF formatDateKey(travelDate) \in route.closedDates
      THEN "Route closed on selected date"
      ELSE "ok"

\* The promo part of createBooking without the usage-limit test.
ApplyPromo_IgnoresLimit(promoCode, subtotal) ==
  IF promoCode = "" THEN <<0, None>>
  ELSE LET found == FindUsablePromo(toUpperCase(promoCode))
       IN  IF ~IsSome(found) THEN <<0, None>>
           ELSE <<PromoDiscount(Val(found), subtotal), Some(Val(found).code)>>

\* The promo part of createBooking: <<discount, validPromoCode>>.
ApplyPromo(promoCode, subtotal) ==
  IF promoCode = "" THEN <<0, None>>
  ELSE LET found == FindUsablePromo(toUpperCase(promoCode))
       IN  IF ~IsSome(found) THEN <<0, None>>
           ELSE LET promo == Val(found)
                IN  IF promo.usageLimit = 0
                         \/ promo.usageCount < promo.usageLimit
                    THEN <<PromoDiscount(promo, subtotal), Some(promo.code)>>
                    ELSE <<0, None>>

\* The Booking document createBooking builds.
NewBooking(route, date, passenger, promoCode, studentDiscount) ==
  LET subtotal == route.basePrice
      fees == ServiceFee(subtotal)
      promo == ApplyPromo(promoCode, subtotal)
      studentDiscountAmount == StudentDiscountAmount(route, studentDiscount)
  IN  [bookingId |-> Len(bookings) + 1,
       from |-> route.from, to |-> route.to,
       date |-> normalizeTravelDate(date),
       departureTime |-> route.departureTime,
       arrivalTime |-> route.arrivalTime,
       passenger |-> passenger,
       subtotal |-> subtotal,
       fees |-> fees,
       discount |-> promo[1],
       studentDiscount |-> studentDiscountAmount,
       total |-> BookingTotal(subtotal, fees, promo[1], studentDiscountAmount),
       currency |-> route.currency,
       promoCode |-> promo[2],
       status |-> "pending",
       paymentIntentId |-> None,
       stripeCustomerId |-> None]

\* POST /api/bookings
CreateBooking(from, to, date, passenger, promoCode, studentDiscount) ==
  LET r == FindRoute(from, to)
  IN  /\ IF r = 0
         THEN /\ response' = Reply("createBooking", 404, [error |-> "Route not found"])
              /\ UNCHANGED bookings
         ELSE LET verdict == Availability(routes[r], date)
              IN  IF verdict # "ok"
                  THEN /\ response' = Reply("createBooking", 400, [error |-> verdict])
                       /\ UNCHANGED bookings
                  ELSE LET booking == NewBooking(routes[r], date, passenger,
                                                 promoCode, studentDiscount)
                       IN  /\ bookings' = Append(bookings, booking)
                           /\ response' = Reply("createBooking", 201,
                                                [error |-> "",
                                                 bookingId |-> booking.bookingId])
      /\ UNCHANGED <<redemptions, routes, promos, tickets, customers, intents, now,
                     deliveries>>

\* The clock advances between requests.
Tick ==
  /\ now' = now + ClockStep
  /\ UNCHANGED <<redemptions, routes, promos, bookings, tickets, customers, intents,
                 response, deliveries, redemptions>>

\* ------------------------------------------------------- createPaymentSheet
\* Booking.findOne({bookingId}): the document's index, or 0.
FindBooking(bookingId) ==
  FirstOf({i \in 1..Len(bookings) : bookings[i].bookingId = bookingId})

\* document.save(): the paths the handler changed on its copy (read as
\* `loaded`, now `doc`) are written to the stored document.
SaveModified(stored, loaded, doc) ==
  [f \in DOMAIN stored |-> IF doc[f] # loaded[f] THEN doc[f] ELSE stored[f]]

\* Math.abs(Number(totalAmount) - booking.total) > 0.01, on amounts held in
\* minor units: a difference of exactly one minor unit compares either way
\* in binary floating point (floatAbove).
SignificantlyDifferent(totalAmount, total, floatAbove) ==
  \/ Abs(totalAmount - total) > 1
  \/ Abs(totalAmount - total) = 1 /\ floatAbove

\* The booking after the total correction of createPaymentSheet.
CorrectedTotal(booking, totalAmount, floatAbove) ==
  IF IsSome(totalAmount)
       /\ SignificantlyDifferent(Val(totalAmount), booking.total, floatAbove)
  THEN [booking EXCEPT !.total = Val(totalAmount)]
  ELSE booking

\* POST /api/payments/payment-sheet.  stripeFails names the provider call
\* that raises an error, if any.
CreatePaymentSheet(bookingId, totalAmount, floatAbove, stripeFails) ==
  LET b == FindBooking(bookingId)
  IN  /\ IF b = 0
         THEN /\ response' = Reply("createPaymentSheet", 404,
                                   [error |-> "Booking not found"])
              /\ UNCHANGED <<bookings, customers, intents>>
         ELSE
           LET amountToCharge == IF IsSome(totalAmount) THEN Val(totalAmount)
                                 ELSE bookings[b].total
               corrected == CorrectedTotal(bookings[b], totalAmount, floatAbove)
               needsCustomer == ~IsSome(corrected.stripeCustomerId)
               customerId == IF needsCustomer THEN Len(customers) + 1
                             ELSE Val(corrected.stripeCustomerId)
               withCustomer ==
                 [corrected EXCEPT !.stripeCustomerId = Some(customerId)]
               paymentIntent ==
                 [id |-> Len(intents) + 1,
                  amount |-> amountToCharge,
                  currency |-> toLowerCase(corrected.currency),
                  customer |-> customerId,
                  bookingId |-> Some(corrected.bookingId)]
           IN  IF corrected.status # "pending"
               THEN /\ bookings' = [bookings EXCEPT ![b] = corrected]
                    /\ response' = Reply("createPaymentSheet", 400,
                                         [error |-> "Booking already processed"])
                    /\ UNCHANGED <<customers, intents>>
               ELSE IF toLowerCase(corrected.currency) \notin {"ron", "eur"}
               THEN /\ bookings' = [bookings EXCEPT ![b] = corrected]
                    /\ response' = Reply("createPaymentSheet", 400,
                                         [error |-> "Invalid currency"])
                    /\ UNCHANGED <<customers, intents>>
               ELSE IF needsCustomer /\ stripeFails = "customer"
               THEN /\ bookings' = [bookings EXCEPT ![b] = corrected]
                    /\ response' = Reply("createPaymentSheet", 500,
                                [error |-> "Failed to create payment sheet"])
                    /\ UNCHANGED <<customers, intents>>
               ELSE
                 /\ customers' = IF needsCustomer
                                 THEN Append(customers,
                                        [bookingId |-> corrected.bookingId])
                                 ELSE customers
                 /\ IF stripeFails = "intent"
                    THEN /\ bookings' = [bookings EXCEPT ![b] = withCustomer]
                         /\ response' = Reply("createPaymentSheet", 500,
                                [error |-> "Failed to create payment sheet"])
                         /\ UNCHANGED intents
                    ELSE
                      /\ intents' = Append(intents, paymentIntent)
                      /\ IF stripeFails = "ephemeralKey"
                         THEN /\ bookings' =
                                   [bookings EXCEPT ![b] = withCustomer]
                              /\ response' = Reply("createPaymentSheet", 500,
                                   [error |-> "Failed to create payment sheet"])
                         ELSE /\ bookings' = [bookings EXCEPT ![b] =
                                   [withCustomer EXCEPT
                                      !.paymentIntentId = Some(paymentIntent.id)]]
                              /\ response' = Reply("createPaymentSheet", 200,
                                   [error |-> "",
                                    paymentIntent |-> paymentIntent.id,
                                    amount |-> paymentIntent.amount,
                                    customer |-> customerId])
      /\ UNCHANGED <<redemptions, routes, promos, tickets, now, deliveries>>

\* ------------------------------------------------------------------ webhook
\* paymentIntent.amount_received ?? paymentIntent.amount ?? 0
AmountReceived(paymentIntent) ==
  IF IsSome(paymentIntent.amount_received)
  THEN Val(paymentIntent.amount_received)
  ELSE paymentIntent.amount

\* handlePaymentSuccess, the changes made to the loaded booking before
\* booking.save().
MarkPaid(booking, paymentIntent) ==
  LET amountReceived == AmountReceived(paymentIntent)
      currency == toUpperCase(paymentIntent.currency)
  IN  [booking EXCEPT
         !.status = "paid",
         !.paymentIntentId = Some(paymentIntent.id),
         !.total = IF amountReceived > 0 THEN amountReceived ELSE @,
         !.currency = IF currency \in {"RON", "EUR"} THEN currency ELSE @]

\* The usage update writing the count of one use instead of adding to it.
IncrementUsage_Overwrite(coll, promoCode) ==
  IF IsSome(promoCode) /\ Val(promoCode) \in DOMAIN coll
  THEN [coll EXCEPT ![Val(promoCode)].usageCount = 1]
  ELSE coll

\* PromoCode.findOneAndUpdate({code}, {$inc: {usageCount: 1}})
IncrementUsage(coll, promoCode) ==
  IF IsSome(promoCode) /\ Val(promoCode) \in DOMAIN coll
  THEN [coll EXCEPT ![Val(promoCode)].usageCount = @ + 1]
  ELSE coll

\* Ticket.findOne({bookingId}): the ticket's index, or 0.
FindTicketByBooking(coll, bookingId) ==
  FirstOf({i \in 1..Len(coll) : coll[i].bookingId = bookingId})

\* The Ticket document handlePaymentSuccess builds from the booking.
NewTicket(coll, booking) ==
  [ticketId |-> Len(coll) + 1,
   bookingId |-> booking.bookingId,
   qrToken |-> Len(coll) + 1,
   from |-> booking.from, to |-> booking.to,
   date |-> booking.date,
   departureTime |-> booking.departureTime,
   arrivalTime |-> booking.arrivalTime,
   passengerName |-> booking.passenger,
   price |-> booking.total,
   currency |-> booking.currency,
   isUsed |-> FALSE,
   usedAt |-> None]

\* Ticket issuance: the collection after "find the booking's ticket, else
\* create and save one".
\* Ticket issuance refreshing the ticket a booking already has.
IssueTicket_Reissue(coll, booking) ==
  IF FindTicketByBooking(coll, booking.bookingId) = 0
  THEN Append(coll, NewTicket(coll, booking))
  ELSE [coll EXCEPT ![FindTicketByBooking(coll, booking.bookingId)] =
          [@ EXCEPT !.price = booking.total, !.isUsed = FALSE,
                    !.usedAt = None]]

IssueTicket(coll, booking) ==
  IF FindTicketByBooking(coll, booking.bookingId) = 0
  THEN Append(coll, NewTicket(coll, booking))
  ELSE coll

\* handlePaymentSuccess without its early return for a booking already paid.
PaymentSuccessOutcome_NoPaidCheck(paymentIntent, pdfFails) ==
  IF ~IsSome(paymentIntent.bookingId) THEN "no bookingId in metadata"
  ELSE IF FindBooking(Val(paymentIntent.bookingId)) = 0
  THEN "booking not found"
  ELSE IF pdfFails THEN "ticket rendering failed"
  ELSE "processed"

\* How handlePaymentSuccess ends for an event, run start to end.
PaymentSuccessOutcome(paymentIntent, pdfFails) ==
  IF ~IsSome(paymentIntent.bookingId) THEN "no bookingId in metadata"
  ELSE LET b == FindBooking(Val(paymentIntent.bookingId))
       IN  IF b = 0 THEN "booking not found"
           ELSE IF bookings[b].status = "paid" THEN "already paid"
           ELSE IF pdfFails THEN "ticket rendering failed"
           ELSE "processed"

\* handlePaymentSuccess undoing its writes when the ticket cannot be rendered.
HandlePaymentSuccess_UndoOnRenderFailure(paymentIntent, pdfFails) ==
  IF PaymentSuccessOutcome(paymentIntent, pdfFails) = "processed"
  THEN LET b == FindBooking(Val(paymentIntent.bookingId))
           booking == SaveModified(bookings[b], bookings[b],
                                   MarkPaid(bookings[b], paymentIntent))
       IN  /\ bookings' = [bookings EXCEPT ![b] = booking]
           /\ promos' = IncrementUsage(promos, booking.promoCode)
           /\ tickets' = IssueTicket(tickets, booking)
  ELSE UNCHANGED <<bookings, promos, tickets>>

\* handlePaymentSuccess, run start to end.
HandlePaymentSuccess(paymentIntent, pdfFails) ==
  IF PaymentSuccessOutcome(paymentIntent, pdfFails)
       \in {"processed", "ticket rendering failed"}
  THEN LET b == FindBooking(Val(paymentIntent.bookingId))
           booking == SaveModified(bookings[b], bookings[b],
                                   MarkPaid(bookings[b], paymentIntent))
       IN  /\ bookings' = [bookings EXCEPT ![b] = booking]
           /\ promos' = IncrementUsage(promos, booking.promoCode)
           /\ tickets' = IssueTicket(tickets, booking)
  ELSE UNCHANGED <<bookings, promos, tickets>>

\* How handlePaymentFailed ends for an event.
PaymentFailedOutcome(paymentIntent) ==
  IF ~IsSome(paymentIntent.bookingId) THEN "no bookingId in metadata"
  ELSE IF FindBooking(Val(paymentIntent.bookingId)) = 0
  THEN "booking not found"
  ELSE "cancelled"

\* The update of handlePaymentFailed returning the booking to pending.
CancelBooking_Reopen(coll, b) == [coll EXCEPT ![b].status = "pending"]

\* Booking.findOneAndUpdate({bookingId}, {status: 'cancelled'})
CancelBooking(coll, b) == [coll EXCEPT ![b].status = "cancelled"]

\* handlePaymentFailed with an upserting update: an unknown bookingId gets a
\* cancelled booking created for it.
HandlePaymentFailed_Upsert(paymentIntent) ==
  /\ bookings' =
       IF PaymentFailedOutcome(paymentIntent) = "cancelled"
       THEN CancelBooking(bookings, FindBooking(Val(paymentIntent.bookingId)))
       ELSE IF PaymentFailedOutcome(paymentIntent) = "booking not found"
       THEN Append(bookings,
              [bookingId |-> Val(paymentIntent.bookingId),
               from |-> "", to |-> "", date |-> 0,
               departureTime |-> "", arrivalTime |-> "", passenger |-> "",
               subtotal |-> 0, fees |-> 0, discount |-> 0,
               studentDiscount |-> 0, total |-> 0, currency |-> "RON",
               promoCode |-> None, status |-> "cancelled",
               paymentIntentId |-> None, stripeCustomerId |-> None])
       ELSE bookings
  /\ UNCHANGED <<promos, tickets>>

\* handlePaymentFailed
HandlePaymentFailed(paymentIntent) ==
  /\ IF PaymentFailedOutcome(paymentIntent) = "cancelled"
     THEN bookings' =
            CancelBooking(bookings, FindBooking(Val(paymentIntent.bookingId)))
     ELSE UNCHANGED bookings
  /\ UNCHANGED <<promos, tickets>>

\* The outcomes with which an event handler raises an error.
HandlerErrors ==
  {"no bookingId in metadata", "booking not found", "ticket rendering failed",
   "storage failure"}

\* The body of the 200 response after a verified event.
Acknowledged(type, paymentIntent, outcome) ==
  [error |-> IF outcome \in HandlerErrors
             THEN "Processing failed but acknowledged" ELSE "",
   received |-> TRUE,
   type |-> type,
   bookingId |-> paymentIntent.bookingId,
   outcome |-> outcome]

\* handleWebhook answering 500 when the event handler raised an error.
HandleWebhook_ErrorStatus(auth, type, paymentIntent, pdfFails) ==
  /\ CASE auth = "no signature" ->
            /\ response' = Reply("webhook", 400,
                               [error |-> "Missing stripe-signature header"])
            /\ UNCHANGED <<bookings, promos, tickets>>
       [] auth = "no secret" ->
            /\ response' = Reply("webhook", 500,
                               [error |-> "Webhook secret not configured"])
            /\ UNCHANGED <<bookings, promos, tickets>>
       [] auth = "bad signature" ->
            /\ response' = Reply("webhook", 400,
                          [error |-> "Webhook signature verification failed"])
            /\ UNCHANGED <<bookings, promos, tickets>>
       [] OTHER ->
            CASE type = "payment_intent.succeeded" ->
                   /\ HandlePaymentSuccess(paymentIntent, pdfFails)
                   /\ response' = Reply("webhook",
                        IF PaymentSuccessOutcome(paymentIntent, pdfFails)
                             \in HandlerErrors THEN 500 ELSE 200,
                        Acknowledged(type, paymentIntent,
                          PaymentSuccessOutcome(paymentIntent, pdfFails)))
              [] type = "payment_intent.payment_failed" ->
                   /\ HandlePaymentFailed(paymentIntent)
                   /\ response' = Reply("webhook",
                        IF PaymentFailedOutcome(paymentIntent)
                             \in HandlerErrors THEN 500 ELSE 200,
                        Acknowledged(type, paymentIntent,
                          PaymentFailedOutcome(paymentIntent)))
              [] OTHER ->
                   /\ response' = Reply("webhook", 200,
                        Acknowledged(type, paymentIntent, "ignored"))
                   /\ UNCHANGED <<bookings, promos, tickets>>
  /\ UNCHANGED <<redemptions, routes, customers, intents, now, deliveries>>

\* handleWebhook processing an event whose signature does not verify.
HandleWebhook_TrustsPayload(auth, type, paymentIntent, pdfFails) ==
  /\ CASE auth = "no signature" ->
            /\ response' = Reply("webhook", 400,
                               [error |-> "Missing stripe-signature header"])
            /\ UNCHANGED <<bookings, promos, tickets>>
       [] auth = "no secret" ->
            /\ response' = Reply("webhook", 500,
                               [error |-> "Webhook secret not configured"])
            /\ UNCHANGED <<bookings, promos, tickets>>
       [] OTHER ->
            CASE type = "payment_intent.succeeded" ->
                   /\ HandlePaymentSuccess(paymentIntent, pdfFails)
                   /\ response' = Reply("webhook", 200,
                        Acknowledged(type, paymentIntent,
                          PaymentSuccessOutcome(paymentIntent, pdfFails)))
              [] type = "payment_intent.payment_failed" ->
                   /\ HandlePaymentFailed(paymentIntent)
                   /\ response' = Reply("webhook", 200,
                        Acknowledged(type, paymentIntent,
                          PaymentFailedOutcome(paymentIntent)))
              [] OTHER ->
                   /\ response' = Reply("webhook", 200,
                        Acknowledged(type, paymentIntent, "ignored"))
                   /\ UNCHANGED <<bookings, promos, tickets>>
  /\ UNCHANGED <<redemptions, routes, customers, intents, now, deliveries>>

\* POST /api/payments/webhook.  auth is the outcome of the signature check.
HandleWebhook(auth, type, paymentIntent, pdfFails) ==
  /\ CASE auth = "no signature" ->
            /\ response' = Reply("webhook", 400,
                               [error |-> "Missing stripe-signature header"])
            /\ UNCHANGED <<bookings, promos, tickets>>
       [] auth = "no secret" ->
            /\ response' = Reply("webhook", 500,
                               [error |-> "Webhook secret not configured"])
            /\ UNCHANGED <<bookings, promos, tickets>>
       [] auth = "bad signature" ->
            /\ response' = Reply("webhook", 400,
                          [error |-> "Webhook signature verification failed"])
            /\ UNCHANGED <<bookings, promos, tickets>>
       [] OTHER ->
            CASE type = "payment_intent.succeeded" ->
                   /\ HandlePaymentSuccess(paymentIntent, pdfFails)
                   /\ response' = Reply("webhook", 200,
                        Acknowledged(type, paymentIntent,
                          PaymentSuccessOutcome(paymentIntent, pdfFails)))
              [] type = "payment_intent.payment_failed" ->
                   /\ HandlePaymentFailed(paymentIntent)
                   /\ response' = Reply("webhook", 200,
                        Acknowledged(type, paymentIntent,
                          PaymentFailedOutcome(paymentIntent)))
              [] OTHER ->
                   /\ response' = Reply("webhook", 200,
                        Acknowledged(type, paymentIntent, "ignored"))
                   /\ UNCHANGED <<bookings, promos, tickets>>
  /\ UNCHANGED <<redemptions, routes, customers, intents, now, deliveries>>

\* The database calls of handlePaymentSuccess, in the order it makes them.
SuccessStorageCalls ==
  <<"Booking.findOne", "booking.save", "PromoCode.findOneAndUpdate",
    "Ticket.findOne", "ticket.save">>

\* Whether handlePaymentSuccess reaches the database call failAt for an event.
ReachesCall(paymentIntent, failAt) ==
  /\ IsSome(paymentIntent.bookingId)
  /\ \/ failAt = "Booking.findOne"
     \/ LET b == FindBooking(Val(paymentIntent.bookingId))
        IN  /\ b # 0
            /\ bookings[b].status # "paid"
            /\ failAt = "PromoCode.findOneAndUpdate"
                  => IsSome(bookings[b].promoCode)
            /\ failAt = "ticket.save"
                  => FindTicketByBooking(tickets, bookings[b].bookingId) = 0

\* POST /api/payments/webhook with a verified payment_intent.succeeded event
\* whose handler has the database call failAt throw: the writes made before
\* that call stand, the error is re-thrown and handleWebhook's catch answers.
HandleWebhookStorageFails(paymentIntent, failAt) ==
  /\ ReachesCall(paymentIntent, failAt)
  /\ LET b == FindBooking(Val(paymentIntent.bookingId))
         booking == SaveModified(bookings[b], bookings[b],
                                 MarkPaid(bookings[b], paymentIntent))
     IN  /\ bookings' =
              IF failAt \in {"Booking.findOne", "booking.save"} THEN bookings
              ELSE [bookings EXCEPT ![b] = booking]
         /\ promos' =
              IF failAt \in {"Ticket.findOne", "ticket.save"}
              THEN IncrementUsage(promos, booking.promoCode)
              ELSE promos
  /\ response' = Reply("webhook", 200,
       Acknowledged("payment_intent.succeeded", paymentIntent,
                    "storage failure"))
  /\ UNCHANGED <<redemptions, routes, tickets, customers, intents, now,
                 deliveries>>

\* POST /api/payments/webhook with a verified payment_intent.payment_failed
\* event whose Booking.findOneAndUpdate throws.
HandleWebhookCancelFails(paymentIntent) ==
  /\ IsSome(paymentIntent.bookingId)
  /\ response' = Reply("webhook", 200,
       Acknowledged("payment_intent.payment_failed", paymentIntent,
                    "storage failure"))
  /\ UNCHANGED <<redemptions, routes, promos, bookings, tickets, customers,
                 intents, now, deliveries>>

\* POST /api/payments/webhook with a verified payment_intent.succeeded event
\* that is processed and whose sendTicketEmail rejects: the rejection is
\* caught where the promise was started and the handler returns normally.
HandleWebhookEmailFails(paymentIntent) ==
  /\ PaymentSuccessOutcome(paymentIntent, FALSE) = "processed"
  /\ HandlePaymentSuccess(paymentIntent, FALSE)
  /\ response' = Reply("webhook", 200,
       Acknowledged("payment_intent.succeeded", paymentIntent,
                    "processed, email failed"))
  /\ UNCHANGED <<redemptions, routes, customers, intents, now, deliveries>>

\* The event objects the provider may deliver for an intent it holds.
EventObject(intent) ==
  [id |-> intent.id, bookingId |-> intent.bookingId, amount |-> intent.amount,
   amount_received |-> Some(intent.amount), currency |-> intent.currency]

\* Intents of the same provider account that no booking of this system made.
ForeignIntents ==
  { [id |-> 0, bookingId |-> None, amount |-> 500,
     amount_received |-> None, currency |-> "usd"],
    [id |-> 0, bookingId |-> Some(0), amount |-> 500,
     amount_received |-> Some(500), currency |-> "ron"] }

\* ------------------------------------------------------------------ tickets
\* Ticket.findOne({qrToken}): the ticket's index, or 0.
FindTicketByToken(qrToken) ==
  FirstOf({i \in 1..Len(tickets) : tickets[i].qrToken = qrToken})

\* new Date() with setHours(0, 0, 0, 0): midnight of the current day in the
\* server's time zone (utcOffset hours ahead of UTC), as a UTC instant.
LocalMidnight(t, utcOffset) ==
  ((t + utcOffset) \div HoursPerDay) * HoursPerDay - utcOffset

\* The verdict with the expiry test made before the isUsed test.
ValidateVerdict_ExpiryFirst(qrToken, utcOffset) ==
  LET t == FindTicketByToken(qrToken)
  IN  IF t = 0 THEN "Ticket not found"
      ELSE LET b == FindBooking(tickets[t].bookingId)
           IN  IF b = 0 \/ bookings[b].status # "paid"
               THEN "Booking not confirmed"
               ELSE IF tickets[t].date < LocalMidnight(now, utcOffset)
               THEN "expired"
               ELSE IF tickets[t].isUsed THEN "alreadyUsed"
               ELSE "valid"

\* The verdict of validateQRCode on a token.
ValidateVerdict(qrToken, utcOffset) ==
  LET t == FindTicketByToken(qrToken)
  IN  IF t = 0 THEN "Ticket not found"
      ELSE LET b == FindBooking(tickets[t].bookingId)
           IN  IF b = 0 \/ bookings[b].status # "paid"
               THEN "Booking not confirmed"
               ELSE IF tickets[t].isUsed THEN "alreadyUsed"
               ELSE IF tickets[t].date < LocalMidnight(now, utcOffset)
               THEN "expired"
               ELSE "valid"

\* POST /api/tickets/validate
ValidateQRCode(qrToken, utcOffset) ==
  LET verdict == ValidateVerdict(qrToken, utcOffset)
      t == FindTicketByToken(qrToken)
  IN  /\ response' =
           CASE verdict = "Ticket not found" ->
                  Reply("validateQRCode", 404,
                        [error |-> verdict, valid |-> FALSE])
             [] verdict = "Booking not confirmed" ->
                  Reply("validateQRCode", 400,
                        [error |-> verdict, valid |-> FALSE])
             [] verdict = "alreadyUsed" ->
                  Reply("validateQRCode", 200,
                        [error |-> "", valid |-> FALSE, alreadyUsed |-> TRUE,
                         usedAt |-> tickets[t].usedAt,
                         ticketId |-> tickets[t].ticketId])
             [] verdict = "expired" ->
                  Reply("validateQRCode", 200,
                        [error |-> "", valid |-> FALSE, expired |-> TRUE,
                         ticketId |-> tickets[t].ticketId])
             [] OTHER ->
                  Reply("validateQRCode", 200,
                        [error |-> "", valid |-> TRUE,
                         ticketId |-> tickets[t].ticketId])
      /\ UNCHANGED <<redemptions, routes, promos, bookings, tickets, customers, intents,
                     now, deliveries>>

\* useTicket, the changes made to the loaded ticket before ticket.save().
MarkUsed(ticket) == [ticket EXCEPT !.isUsed = TRUE, !.usedAt = Some(now)]

\* useTicket without its isUsed check: every call marks the ticket again.
UseTicket_NoUsedCheck(qrToken) ==
  LET t == FindTicketByToken(qrToken)
  IN  /\ IF t = 0
         THEN /\ response' = Reply("useTicket", 404,
                                   [error |-> "Ticket not found"])
              /\ UNCHANGED tickets
         ELSE /\ tickets' = [tickets EXCEPT ![t] =
                   SaveModified(tickets[t], tickets[t], MarkUsed(tickets[t]))]
              /\ response' = Reply("useTicket", 200,
                                   [error |-> "", success |-> TRUE,
                                    ticketId |-> tickets[t].ticketId,
                                    usedAt |-> Some(now)])
      /\ UNCHANGED <<redemptions, routes, promos, bookings, customers, intents, now,
                     deliveries>>

\* POST /api/tickets/use
UseTicket(qrToken) ==
  LET t == FindTicketByToken(qrToken)
  IN  /\ IF t = 0
         THEN /\ response' = Reply("useTicket", 404,
                                   [error |-> "Ticket not found"])
              /\ UNCHANGED tickets
         ELSE IF tickets[t].isUsed
         THEN /\ response' = Reply("useTicket", 400,
                                   [error |-> "Ticket already used",
                                    usedAt |-> tickets[t].usedAt])
              /\ UNCHANGED tickets
         ELSE /\ tickets' = [tickets EXCEPT ![t] =
                   SaveModified(tickets[t], tickets[t], MarkUsed(tickets[t]))]
              /\ response' = Reply("useTicket", 200,
                                   [error |-> "", success |-> TRUE,
                                    ticketId |-> tickets[t].ticketId,
                                    usedAt |-> Some(now)])
      /\ UNCHANGED <<redemptions, routes, promos, bookings, customers, intents, now,
                     deliveries>>

\* ------------------------------------------------------- validatePromoCode
\* validatePromoCode's discount without the maxDiscount cap.
ValidateDiscount_Uncapped(promo, subtotal) ==
  IF promo.discountPercent > 0
  THEN MathRound(subtotal * promo.discountPercent, 100,
                 <<subtotal, promo.discountPercent>>
                   \in DiscountHalfFallsShort)
  ELSE IF promo.discountFixed > 0 THEN promo.discountFixed ELSE 0

\* validatePromoCode's own copy of the discount computation.
ValidateDiscount(promo, subtotal) ==
  IF promo.discountPercent > 0
  THEN LET discount == MathRound(subtotal * promo.discountPercent, 100,
                                 <<subtotal, promo.discountPercent>>
                                   \in DiscountHalfFallsShort)
       IN  IF promo.maxDiscount > 0 THEN Min(discount, promo.maxDiscount)
           ELSE discount
  ELSE IF promo.discountFixed > 0 THEN promo.discountFixed ELSE 0

\* validatePromoCode counting a use whenever it reports the code valid.
ValidatePromoCode_Counting(code, subtotal) ==
  LET found == FindUsablePromo(toUpperCase(code))
      usable == IsSome(found)
                  /\ ~(Val(found).usageLimit > 0
                        /\ Val(found).usageCount >= Val(found).usageLimit)
  IN  /\ response' =
           IF usable
           THEN Reply("validatePromoCode", 200,
                      [error |-> "", valid |-> TRUE, code |-> Val(found).code,
                       discount |-> ValidateDiscount(Val(found), subtotal)])
           ELSE Reply("validatePromoCode", 404,
                      [error |-> "Promo code not found or expired",
                       valid |-> FALSE])
      /\ promos' = IF usable THEN IncrementUsage(promos, Some(Val(found).code))
                   ELSE promos
      /\ UNCHANGED <<redemptions, routes, bookings, tickets, customers,
                     intents, now, deliveries>>

\* POST /api/promo/validate
ValidatePromoCode(code, subtotal) ==
  LET found == FindUsablePromo(toUpperCase(code))
  IN  /\ response' =
           IF ~IsSome(found)
           THEN Reply("validatePromoCode", 404,
                      [error |-> "Promo code not found or expired",
                       valid |-> FALSE])
           ELSE IF Val(found).usageLimit > 0
                     /\ Val(found).usageCount >= Val(found).usageLimit
           THEN Reply("validatePromoCode", 400,
                      [error |-> "Promo code usage limit reached",
                       valid |-> FALSE])
           ELSE Reply("validatePromoCode", 200,
                      [error |-> "", valid |-> TRUE, code |-> Val(found).code,
                       discount |-> ValidateDiscount(Val(found), subtotal)])
      /\ UNCHANGED <<redemptions, routes, promos, bookings, tickets, customers, intents,
                     now, deliveries>>

\* ------------------------------------------------- dates, search, closures
\* A date as the client sends it: a calendar string (YYYY-MM-DD, held as
\* its day number) or a full UTC timestamp (held as its hour).
CalendarText(day) == [kind |-> "calendar", day |-> day]
TimestampText(hour) == [kind |-> "timestamp", hour |-> hour]

\* new Date(text): a calendar string is midnight UTC of its day.
ParseDate(text) ==
  IF text.kind = "calendar" THEN text.day * HoursPerDay ELSE text.hour

\* normalizeTravelDate on a string: a calendar string is completed with
\* T00:00:00.000Z, any other string goes through new Date().
normalizeTravelDateText(text) ==
  normalizeTravelDate(IF text.kind = "calendar"
                      THEN text.day * HoursPerDay
                      ELSE ParseDate(text))

\* formatDateKey on a string, without the noon roll of normalizeTravelDate.
formatDateKeyText_NoRoll(text) == UTCDayNumber(ParseDate(text))

\* formatDateKey on a string.
formatDateKeyText(text) == UTCDayNumber(normalizeTravelDateText(text))

\* POST /api/routes/search
\* searchTrip's availability check without the closed-date test.
SearchAvailability_NoClosedDates(route, date) ==
  LET travelDate == normalizeTravelDate(date)
      dayOfWeek == getUTCDay(travelDate)
  IN  IF route.availableDays # {} /\ dayOfWeek \notin route.availableDays
      THEN "Route not available on selected date"
      ELSE "ok"

\* searchTrip's own copy of the availability check: weekday first, then
\* the closed dates by key.
SearchAvailability(route, date) ==
  LET travelDate == normalizeTravelDate(date)
      dayOfWeek == getUTCDay(travelDate)
      travelDateKey == formatDateKey(travelDate)
  IN  IF route.availableDays # {} /\ dayOfWeek \notin route.availableDays
      THEN "Route not available on selected date"
      ELSE IF travelDateKey \in route.closedDates
      THEN "Route closed on selected date"
      ELSE "ok"

SearchTrip(from, to, text) ==
  LET r == FindRoute(from, to)
      verdict == SearchAvailability(routes[r], ParseDate(text))
  IN  /\ response' =
           IF r = 0
           THEN Reply("searchTrip", 404, [error |-> "Route not found"])
           ELSE IF verdict # "ok"
           THEN Reply("searchTrip", 400, [error |-> verdict])
           ELSE Reply("searchTrip", 200,
                      [error |-> "",
                       travelDate |-> normalizeTravelDate(ParseDate(text)),
                       price |-> routes[r].basePrice])
      /\ UNCHANGED <<redemptions, routes, promos, bookings, tickets, customers,
                     intents, now, deliveries>>

\* POST /api/admin/routes/:id/closed-dates (id is the route's position;
\* Route.findById ignores the active flag).
AddClosedDate(id, text) ==
  LET dateKey == formatDateKeyText(text)
  IN  /\ IF id \notin 1..Len(routes)
         THEN /\ response' = Reply("addClosedDate", 404,
                                   [error |-> "Route not found"])
              /\ UNCHANGED routes
         ELSE /\ routes' = [routes EXCEPT ![id].closedDates =
                              @ \cup {dateKey}]
              /\ response' = Reply("addClosedDate", 200,
                                   [error |-> "",
                                    closedDates |-> routes'[id].closedDates])
      /\ UNCHANGED <<redemptions, promos, bookings, tickets, customers,
                     intents, now, deliveries>>

\* DELETE /api/admin/routes/:id/closed-dates/:date
RemoveClosedDate(id, text) ==
  LET dateKey == formatDateKeyText(text)
  IN  /\ IF id \notin 1..Len(routes)
         THEN /\ response' = Reply("removeClosedDate", 404,
                                   [error |-> "Route not found"])
              /\ UNCHANGED routes
         ELSE /\ routes' = [routes EXCEPT ![id].closedDates =
                              @ \ {dateKey}]
              /\ response' = Reply("removeClosedDate", 200,
                                   [error |-> "",
                                    closedDates |-> routes'[id].closedDates])
      /\ UNCHANGED <<redemptions, promos, bookings, tickets, customers,
                     intents, now, deliveries>>

\* ------------------------------------------------------------- the requests
\* Request values, as the validators of the routes admit them.
RouteRequests == {<<"A", "B">>, <<"A", "C">>, <<"C", "A">>}
DateRequests == {0, 12, 24}
PromoRequests == {"", "save10", "FIXED5", "NOPE"}
StudentRequests == {None, Some(0), Some(500), Some(5000)}
Passengers == {"Ana Pop"}
AmountRequests == {None, Some(1)}
StripeFailures == {"none", "intent"}
WebhookAuth == {"no signature", "no secret", "bad signature", "verified"}
EventTypes == {"payment_intent.succeeded", "payment_intent.payment_failed",
               "charge.refunded"}
UtcOffsets == {0}

\* The bookingIds and tokens a request may name: those issued, and 0 for
\* one that does not exist.
BookingIdRequests == 0..Len(bookings)
TokenRequests == 0..Len(tickets)

\* The event objects the provider may deliver.
DeliverableIntents ==
  {EventObject(intents[i]) : i \in 1..Len(intents)} \cup ForeignIntents

\* The amounts a payment-sheet request may carry: none, a stale client-side
\* total, or an amount one minor unit above the total createBooking computed.
AmountsFor(bookingId) ==
  AmountRequests \cup
    (IF FindBooking(bookingId) = 0 THEN {}
     ELSE LET booking == bookings[FindBooking(bookingId)]
          IN  {Some(BookingTotal(booking.subtotal, booking.fees,
                                 booking.discount, booking.studentDiscount)
                    + 1)})

\* No promo code has reached the model's bound on counted payments.
UsageBelowBound == \A c \in DOMAIN promos : promos[c].usageCount < MaxUsage

\* ------------------------------------------------ interleaved useTicket calls
\* useTicket as the steps between its awaits: Ticket.findOne with the checks
\* and assignments that follow it, then ticket.save() with the response.  A
\* call holds its own copy of the ticket.
BeginUse(qrToken) ==
  /\ redemptions' = Append(redemptions,
       [qrToken |-> qrToken, pc |-> "findTicket", loaded |-> None,
        doc |-> None, code |-> 0])
  /\ UNCHANGED <<routes, promos, bookings, tickets, customers, intents, now,
                 response, deliveries>>

\* await Ticket.findOne({ qrToken }), the 404 and 400 returns, and the
\* assignments to the loaded document.
UseFindTicket(u) ==
  LET t == FindTicketByToken(redemptions[u].qrToken)
  IN  /\ redemptions[u].pc = "findTicket"
      /\ IF t = 0
         THEN /\ redemptions' = [redemptions EXCEPT ![u].pc = "done",
                                                    ![u].code = 404]
              /\ response' = Reply("useTicket", 404,
                                   [error |-> "Ticket not found"])
         ELSE IF tickets[t].isUsed
         THEN /\ redemptions' = [redemptions EXCEPT ![u].pc = "done",
                                                    ![u].code = 400]
              /\ response' = Reply("useTicket", 400,
                                   [error |-> "Ticket already used",
                                    usedAt |-> tickets[t].usedAt])
         ELSE /\ redemptions' = [redemptions EXCEPT
                                   ![u].pc = "saveTicket",
                                   ![u].loaded = Some(tickets[t]),
                                   ![u].doc = Some(MarkUsed(tickets[t]))]
              /\ UNCHANGED response
      /\ UNCHANGED <<routes, promos, bookings, tickets, customers, intents,
                     now, deliveries>>

\* await ticket.save() and the success response.
UseSaveTicket(u) ==
  LET t == FindTicketByToken(redemptions[u].qrToken)
      doc == Val(redemptions[u].doc)
  IN  /\ redemptions[u].pc = "saveTicket"
      /\ tickets' = [tickets EXCEPT ![t] =
           SaveModified(@, Val(redemptions[u].loaded), doc)]
      /\ redemptions' = [redemptions EXCEPT ![u].pc = "done",
                                            ![u].code = 200]
      /\ response' = Reply("useTicket", 200,
                           [error |-> "", success |-> TRUE,
                            ticketId |-> doc.ticketId, usedAt |-> doc.usedAt])
      /\ UNCHANGED <<routes, promos, bookings, customers, intents, now,
                     deliveries>>

\* ------------------------------------------- interleaved webhook deliveries
\* A delivery of a verified payment_intent.succeeded event runs
\* handlePaymentSuccess one database call at a time; the calls of several
\* deliveries interleave.  A delivery holds its own copy of the booking.
NewDelivery(paymentIntent) ==
  [pc |-> "findBooking", paymentIntent |-> paymentIntent,
   loaded |-> None, booking |-> None, outcome |-> ""]

\* The webhook receives a verified payment_intent.succeeded event.
ReceiveSuccess(paymentIntent) ==
  /\ deliveries' = Append(deliveries, NewDelivery(paymentIntent))
  /\ UNCHANGED <<redemptions, routes, promos, bookings, tickets, customers, intents, now,
                 response>>

\* await Booking.findOne({bookingId}), and the checks up to booking.save()
DeliveryFindBooking(d) ==
  LET paymentIntent == deliveries[d].paymentIntent
      b == IF IsSome(paymentIntent.bookingId)
           THEN FindBooking(Val(paymentIntent.bookingId)) ELSE 0
  IN  /\ deliveries[d].pc = "findBooking"
      /\ deliveries' = [deliveries EXCEPT ![d] =
           IF ~IsSome(paymentIntent.bookingId)
           THEN [@ EXCEPT !.pc = "respond",
                          !.outcome = "no bookingId in metadata"]
           ELSE IF b = 0
           THEN [@ EXCEPT !.pc = "respond", !.outcome = "booking not found"]
           ELSE IF bookings[b].status = "paid"
           THEN [@ EXCEPT !.pc = "respond", !.outcome = "already paid"]
           ELSE [@ EXCEPT !.pc = "saveBooking",
                          !.loaded = Some(bookings[b]),
                          !.booking = Some(MarkPaid(bookings[b],
                                                    paymentIntent))]]
      /\ UNCHANGED <<redemptions, routes, promos, bookings, tickets, customers, intents,
                     now, response>>

\* await booking.save()
DeliverySaveBooking(d) ==
  LET booking == Val(deliveries[d].booking)
      b == FindBooking(booking.bookingId)
  IN  /\ deliveries[d].pc = "saveBooking"
      /\ bookings' = [bookings EXCEPT ![b] =
           SaveModified(@, Val(deliveries[d].loaded), booking)]
      /\ deliveries' = [deliveries EXCEPT ![d].pc =
           IF IsSome(booking.promoCode) THEN "incrementUsage"
           ELSE "findTicket"]
      /\ UNCHANGED <<redemptions, routes, promos, tickets, customers, intents, now,
                     response>>

\* await PromoCode.findOneAndUpdate(...)
DeliveryIncrementUsage(d) ==
  /\ deliveries[d].pc = "incrementUsage"
  /\ promos' = IncrementUsage(promos, Val(deliveries[d].booking).promoCode)
  /\ deliveries' = [deliveries EXCEPT ![d].pc = "findTicket"]
  /\ UNCHANGED <<redemptions, routes, bookings, tickets, customers, intents, now,
                 response>>

\* await Ticket.findOne({bookingId})
DeliveryFindTicket(d) ==
  /\ deliveries[d].pc = "findTicket"
  /\ deliveries' = [deliveries EXCEPT ![d].pc =
       IF FindTicketByBooking(tickets,
                              Val(deliveries[d].booking).bookingId) = 0
       THEN "saveTicket" ELSE "renderPdf"]
  /\ UNCHANGED <<redemptions, routes, promos, bookings, tickets, customers, intents, now,
                 response>>

\* await ticket.save()
DeliverySaveTicket(d) ==
  /\ deliveries[d].pc = "saveTicket"
  /\ tickets' = Append(tickets, NewTicket(tickets, Val(deliveries[d].booking)))
  /\ deliveries' = [deliveries EXCEPT ![d].pc = "renderPdf"]
  /\ UNCHANGED <<redemptions, routes, promos, bookings, customers, intents, now,
                 response>>

\* await generateTicketPDF(ticket, booking)
DeliveryRenderPdf(d, pdfFails) ==
  /\ deliveries[d].pc = "renderPdf"
  /\ deliveries' = [deliveries EXCEPT ![d] =
       [@ EXCEPT !.pc = "respond",
                 !.outcome = IF pdfFails THEN "ticket rendering failed"
                             ELSE "processed"]]
  /\ UNCHANGED <<redemptions, routes, promos, bookings, tickets, customers, intents, now,
                 response>>

\* res.json({received: true}), or the acknowledgement after an error
DeliveryRespond(d) ==
  /\ deliveries[d].pc = "respond"
  /\ deliveries' = [deliveries EXCEPT ![d].pc = "done"]
  /\ response' = Reply("webhook", 200,
       Acknowledged("payment_intent.succeeded", deliveries[d].paymentIntent,
                    deliveries[d].outcome))
  /\ UNCHANGED <<redemptions, routes, promos, bookings, tickets, customers, intents, now>>

\* ----------------------------------------------------------- specification
\* The requests of the booking lifecycle: one route, booked with or without
\* discounts.
LifecycleBooking ==
  \E r \in {<<"A", "B">>, <<"C", "A">>},
     d \in {<<"", None>>, <<"save10", Some(5000)>>} :
    /\ Len(bookings) < MaxBookings
    /\ CreateBooking(r[1], r[2], 0, "Ana Pop", d[1], d[2])

PaymentSheet ==
  \E id \in BookingIdRequests, fa \in BOOLEAN, sf \in StripeFailures :
    \E amt \in AmountsFor(id) :
      /\ Len(intents) < MaxIntents
      /\ CreatePaymentSheet(id, amt, fa, sf)

\* A payment-sheet request for a booking that is no longer pending.
LateSheet ==
  \E id \in BookingIdRequests, fa \in BOOLEAN :
    \E amt \in AmountsFor(id) :
      /\ FindBooking(id) # 0
      /\ bookings[FindBooking(id)].status # "pending"
      /\ CreatePaymentSheet(id, amt, fa, "none")

UnverifiedWebhook ==
  \E a \in WebhookAuth \ {"verified"}, pi \in ForeignIntents :
    HandleWebhook(a, "payment_intent.succeeded", pi, FALSE)

VerifiedWebhook ==
  \E ty \in EventTypes, pi \in DeliverableIntents, pf \in BOOLEAN :
    /\ UsageBelowBound
    /\ HandleWebhook("verified", ty, pi, pf)

TicketCheck == \E q \in TokenRequests, tz \in UtcOffsets : ValidateQRCode(q, tz)

TicketUse == \E q \in TokenRequests : UseTicket(q)

PromoCheck == ValidatePromoCode("save10", 200)

Clock ==
  /\ now < MaxTicks * ClockStep
  /\ Tick

\* Every operation, each run start to end.
\* A verified success event whose handler loses the database at one call.
StorageFailure ==
  \E pi \in DeliverableIntents, i \in DOMAIN SuccessStorageCalls :
    /\ UsageBelowBound
    /\ HandleWebhookStorageFails(pi, SuccessStorageCalls[i])

\* A verified failure event whose handler loses the database.
CancelFailure == \E pi \in DeliverableIntents : HandleWebhookCancelFails(pi)

\* A verified success event whose ticket e-mail cannot be sent.
EmailFailure ==
  \E pi \in DeliverableIntents :
    /\ UsageBelowBound
    /\ HandleWebhookEmailFails(pi)

Next ==
  \/ LifecycleBooking
  \/ PaymentSheet
  \/ LateSheet
  \/ UnverifiedWebhook
  \/ VerifiedWebhook
  \/ StorageFailure
  \/ CancelFailure
  \/ EmailFailure
  \/ TicketCheck
  \/ TicketUse
  \/ PromoCheck
  \/ Clock

Spec == Init /\ [][Next]_vars

\* Booking, payment sheet and webhook events only.
NextPayment ==
  \/ LifecycleBooking
  \/ PaymentSheet
  \/ UnverifiedWebhook
  \/ VerifiedWebhook

SpecPayment == Init /\ [][NextPayment]_vars

\* ---- booking and pricing
\* Every request value of the booking endpoint, with plain payments that
\* move the promo usage counters.
WideBooking ==
  \E r \in RouteRequests, d \in DateRequests, p \in Passengers,
     c \in PromoRequests, sd \in StudentRequests :
    /\ Len(bookings) < MaxBookings
    /\ CreateBooking(r[1], r[2], d, p, c, sd)

PlainPaymentSheet ==
  \E id \in BookingIdRequests :
    /\ Len(intents) < MaxIntents
    /\ CreatePaymentSheet(id, None, FALSE, "none")

SuccessWebhook ==
  \E pi \in DeliverableIntents :
    /\ UsageBelowBound
    /\ HandleWebhook("verified", "payment_intent.succeeded", pi, FALSE)

NextPricing ==
  \/ WideBooking
  \/ PlainPaymentSheet
  \/ SuccessWebhook
  \/ Clock

SpecPricing == Init /\ [][NextPricing]_vars

\* ---- ticket redemption
PlainBooking ==
  /\ Len(bookings) < MaxBookings
  /\ CreateBooking("A", "B", 0, "Ana Pop", "", None)

PaymentWebhook ==
  \E ty \in {"payment_intent.succeeded", "payment_intent.payment_failed"},
     pi \in DeliverableIntents :
    HandleWebhook("verified", ty, pi, FALSE)

NextTickets ==
  \/ PlainBooking
  \/ PlainPaymentSheet
  \/ PaymentWebhook
  \/ TicketCheck
  \/ TicketUse
  \/ Clock

SpecTickets == Init /\ [][NextTickets]_vars

\* ---- several bookings sharing one promo code, each paid once
PromoBooking ==
  /\ Len(bookings) < MaxPromoBookings
  /\ CreateBooking("A", "B", 0, "Ana Pop", "save10", None)

PromoPaymentSheet ==
  \E id \in BookingIdRequests :
    /\ Len(intents) < MaxPromoBookings
    /\ CreatePaymentSheet(id, None, FALSE, "none")

NextPromo ==
  \/ PromoBooking
  \/ PromoPaymentSheet
  \/ SuccessWebhook
  \/ PromoCheck

SpecPromo == Init /\ [][NextPromo]_vars

\* ---- concurrent deliveries of payment_intent.succeeded
ConcBooking ==
  /\ Len(bookings) < MaxConcBookings
  /\ CreateBooking("A", "B", 0, "Ana Pop", "save10", None)

ConcPaymentSheet ==
  \E id \in BookingIdRequests :
    /\ Len(intents) < MaxConcBookings
    /\ CreatePaymentSheet(id, None, FALSE, "none")

Receive ==
  \E pi \in DeliverableIntents :
    /\ Len(deliveries) < MaxDeliveries
    /\ ReceiveSuccess(pi)

NextConc ==
  \/ ConcBooking
  \/ ConcPaymentSheet
  \/ Receive
  \/ \E d \in 1..Len(deliveries) : DeliveryFindBooking(d)
  \/ \E d \in 1..Len(deliveries) : DeliverySaveBooking(d)
  \/ \E d \in 1..Len(deliveries) : DeliveryIncrementUsage(d)
  \/ \E d \in 1..Len(deliveries) : DeliveryFindTicket(d)
  \/ \E d \in 1..Len(deliveries) : DeliverySaveTicket(d)
  \/ \E d \in 1..Len(deliveries), pf \in BOOLEAN : DeliveryRenderPdf(d, pf)
  \/ \E d \in 1..Len(deliveries) : DeliveryRespond(d)

SpecConc == Init /\ [][NextConc]_vars

\* ===================================================================== claims
\* The indices of the tickets issued for a booking.
TicketsOf(coll, bookingId) ==
  {i \in 1..Len(coll) : coll[i].bookingId = bookingId}

\* This step answered a verified payment_intent.succeeded event for booking b
\* whose handler found the booking.
SuccessDelivered(b) ==
  /\ response'.op = "webhook"
  /\ response'.code = 200
  /\ response'.body.type = "payment_intent.succeeded"
  /\ response'.body.bookingId = Some(b)
  /\ response'.body.outcome
       \in {"processed", "already paid", "ticket rendering failed"}
  /\ now' = now

\* The usage counters after exactly one increment of the booking's code.
OneIncrement(booking) ==
  [c \in DOMAIN promos |->
     [promos[c] EXCEPT !.usageCount =
        IF booking.promoCode = Some(c) THEN @ + 1 ELSE @]]

\* C1: a payment-success event delivered for a pending booking leaves it
\* paid with exactly one ticket and one more use of its promo code; the
\* same event delivered again (the booking is paid by then) leaves the
\* booking paid and changes neither the ticket (same ticketId and qrToken)
\* nor any usage counter.
C1_SequentialRedelivery ==
  [][\A b \in 1..Len(bookings) :
       SuccessDelivered(b) =>
         /\ bookings'[b].status = "paid"
         /\ Cardinality(TicketsOf(tickets', b)) = 1
         /\ bookings[b].status = "pending" =>
              promos' = OneIncrement(bookings[b])
         /\ bookings[b].status = "paid" =>
              /\ tickets' = tickets
              /\ promos' = promos
              /\ bookings' = bookings]_vars

\* A redelivery was answered for a paid booking that carries a promo code:
\* one ticket, one counted use.
C1_Witness ==
  /\ response.op = "webhook"
  /\ response.code = 200
  /\ response.body.outcome = "already paid"
  /\ \E b \in 1..Len(bookings) :
       /\ response.body.bookingId = Some(b)
       /\ bookings[b].status = "paid"
       /\ bookings[b].promoCode = Some("SAVE10")
       /\ promos["SAVE10"].usageCount = 1
       /\ Cardinality(TicketsOf(tickets, b)) = 1

\* Every delivery in flight has sent its response.
AllDelivered ==
  /\ Len(deliveries) > 0
  /\ \A d \in 1..Len(deliveries) : deliveries[d].pc = "done"

\* The paid bookings that carry a promo code.
PaidWith(code) ==
  {b \in 1..Len(bookings) :
     bookings[b].status = "paid" /\ bookings[b].promoCode = Some(code)}

\* C2: under any interleaving of concurrent deliveries of the
\* payment-success event for one booking, at most one Ticket exists for
\* that bookingId in every reachable state.
C2_AtMostOneTicket ==
  \A b \in 1..Len(bookings) : Cardinality(TicketsOf(tickets, b)) <= 1

\* C3: under any interleaving of concurrent deliveries of the
\* payment-success event for one booking that carries a promo code, the
\* code's usageCount is incremented exactly once for that booking: once all
\* deliveries have been answered, each code counts one use per paid booking.
C3_OneIncrementPerBooking ==
  AllDelivered =>
    \A c \in DOMAIN promos :
      promos[c].usageCount = Cardinality(PaidWith(c))

\* C4: paid is terminal: once a booking is paid, no operation changes its
\* status; a payment-failed event for a paid booking leaves it paid.
C4_PaidIsTerminal ==
  [][\A b \in 1..Len(bookings) :
       bookings[b].status = "paid" => bookings'[b].status = "paid"]_vars

\* C5: cancelled is terminal: once a booking is cancelled, no operation
\* changes its status; a payment-success event for a cancelled booking does
\* not make it paid and issues no ticket.
C5_CancelledIsTerminal ==
  [][\A b \in 1..Len(bookings) :
       bookings[b].status = "cancelled" =>
         /\ bookings'[b].status = "cancelled"
         /\ TicketsOf(tickets', b) = TicketsOf(tickets, b)]_vars

\* C6: every promo code with usageLimit > 0 has usageCount <= usageLimit in
\* every reachable state.
C6_UsageWithinLimit ==
  \A c \in DOMAIN promos :
    promos[c].usageLimit > 0 => promos[c].usageCount <= promos[c].usageLimit

\* max(0, subtotal + fees - discount - studentDiscount) of a booking.
PayableAmount(booking) ==
  LET due == booking.subtotal + booking.fees - booking.discount
               - booking.studentDiscount
  IN  IF due > 0 THEN due ELSE 0

\* C7 as stated: every booking has total = max(0, subtotal + fees - discount
\* - studentDiscount) and total >= 0 in every reachable state.
C7_TotalIsPayableAmount ==
  \A b \in 1..Len(bookings) :
    bookings[b].total = PayableAmount(bookings[b]) /\ bookings[b].total >= 0

\* C7 amended: every booking has total >= 0 in every reachable state; its
\* total is max(0, subtotal + fees - discount - studentDiscount) when
\* createBooking stores it, and afterwards the stored total changes only
\* in a createPaymentSheet call (a totalAmount override that differs from
\* it) or while a payment-success event records the amount received.
C7_TotalChangesOnlyByOverride ==
  [][\A b \in 1..Len(bookings') :
       /\ bookings'[b].total >= 0
       /\ b > Len(bookings) =>
            bookings'[b].total = PayableAmount(bookings'[b])
       /\ (b <= Len(bookings) /\ bookings'[b].total # bookings[b].total) =>
            \/ response'.op = "createPaymentSheet"
            \/ SuccessDelivered(b) /\ bookings[b].status # "paid"]_vars

\* A payment-sheet request has replaced a stored total.
C7_Witness ==
  /\ response.op = "createPaymentSheet"
  /\ \E b \in 1..Len(bookings) :
       bookings[b].total # PayableAmount(bookings[b])

\* The booking createBooking has just stored.
Created == bookings[response.body.bookingId]

\* C8: the booking createBooking stores has subtotal = route.basePrice and
\* total = max(0, subtotal + fees - discount - studentDiscount), never
\* negative, also when the discounts exceed subtotal + fees.
C8_CreatedTotal ==
  (response.op = "createBooking" /\ response.code = 201) =>
    /\ Created.subtotal = routes[FindRoute(Created.from, Created.to)].basePrice
    /\ Created.total = PayableAmount(Created)
    /\ Created.total >= 0

\* A booking was created whose discounts exceed subtotal + fees.
C8_Witness ==
  /\ response.op = "createBooking"
  /\ response.code = 201
  /\ Created.discount + Created.studentDiscount
       > Created.subtotal + Created.fees
  /\ Created.discount > 0
  /\ Created.total = 0

\* The student discount a route grants on a requested amount.
ClampedStudentDiscount(route, requested) ==
  IF IsSome(route.studentDiscount) /\ Val(route.studentDiscount) > 0
       /\ IsSome(requested) /\ Val(requested) > 0
  THEN IF Val(requested) < Val(route.studentDiscount)
       THEN Val(requested) ELSE Val(route.studentDiscount)
  ELSE 0

\* The studentDiscount a route has configured (0 when it has none).
ConfiguredStudentDiscount(route) ==
  IF IsSome(route.studentDiscount) THEN Val(route.studentDiscount) ELSE 0

\* C9: for every createBooking request that stores a booking (its from, to
\* and passenger are the ones stored, its date normalizes to the stored
\* one), the stored studentDiscount is min(requested, route.studentDiscount)
\* when both are positive and 0 otherwise; it never exceeds the route's
\* configured studentDiscount.
C9_StudentDiscountClamped ==
  [][Len(bookings') > Len(bookings) =>
       LET new == bookings'[Len(bookings')]
           route == routes[FindRoute(new.from, new.to)]
       IN  \A d \in {x \in DateRequests : normalizeTravelDate(x) = new.date},
              c \in PromoRequests, sd \in StudentRequests :
             CreateBooking(new.from, new.to, d, new.passenger, c, sd) =>
               /\ new.studentDiscount = ClampedStudentDiscount(route, sd)
               /\ new.studentDiscount <= ConfiguredStudentDiscount(route)]_vars

\* A booking was created with the route's full student discount, below
\* what the client asked for (the requests are 0, 500 and 5000).
C9_Witness ==
  /\ response.op = "createBooking"
  /\ response.code = 201
  /\ Created.studentDiscount = 1000
  /\ routes[FindRoute(Created.from, Created.to)].studentDiscount = Some(1000)

Redeem ==
  \E q \in TokenRequests :
    /\ Len(redemptions) < MaxRedemptions
    /\ BeginUse(q)

NextRedeem ==
  \/ PlainBooking
  \/ PlainPaymentSheet
  \/ SuccessWebhook
  \/ Redeem
  \/ \E u \in 1..Len(redemptions) : UseFindTicket(u)
  \/ \E u \in 1..Len(redemptions) : UseSaveTicket(u)
  \/ Clock

SpecRedeem == Init /\ [][NextRedeem]_vars

\* The useTicket calls with a token that have reported success.
Succeeded(qrToken) ==
  {u \in 1..Len(redemptions) :
     redemptions[u].qrToken = qrToken /\ redemptions[u].code = 200}

\* C11: under any interleaving of concurrent useTicket calls with the same
\* qrToken, at most one call reports success (each success has written
\* isUsed and usedAt, so usedAt is written at most once).
C11_OneSuccessfulUse ==
  \A t \in 1..Len(tickets) : Cardinality(Succeeded(tickets[t].qrToken)) <= 1

\* C12: in every reachable state every ticket refers to a booking that
\* exists and whose status is paid.
C12_TicketOfPaidBooking ==
  \A t \in 1..Len(tickets) :
    /\ FindBooking(tickets[t].bookingId) # 0
    /\ bookings[FindBooking(tickets[t].bookingId)].status = "paid"

\* ---- promo validation and counting
SubtotalRequests == {200, 30000}

WidePromoCheck ==
  \E c \in PromoRequests, st \in SubtotalRequests : ValidatePromoCode(c, st)

NextValidation ==
  \/ PromoBooking
  \/ PromoPaymentSheet
  \/ SuccessWebhook
  \/ WidePromoCheck
  \/ Clock

SpecValidation == Init /\ [][NextValidation]_vars

\* C13: promo validation is free of side effects: a step changes the promo
\* codes only while a payment-success event is processed, and then only a
\* usageCount; validatePromoCode and createBooking steps, which answer with
\* another operation's response, leave every promo code as it was.
C13_OnlyPaymentCounts ==
  [][promos' # promos =>
       /\ response'.op = "webhook"
       /\ response'.code = 200
       /\ response'.body.type = "payment_intent.succeeded"
       /\ \A c \in DOMAIN promos :
            promos'[c] = [promos[c] EXCEPT !.usageCount = promos'[c].usageCount]
    ]_vars

\* A code was validated as usable after a booking applied it, and no use
\* has been counted.
C13_Witness ==
  /\ response.op = "validatePromoCode"
  /\ response.code = 200
  /\ response.body.code = "SAVE10"
  /\ \E b \in 1..Len(bookings) :
       bookings[b].promoCode = Some("SAVE10") /\ bookings[b].discount > 0
  /\ promos["SAVE10"].usageCount = 0

\* ---- payment sheets before and after the booking is processed
SheetWebhook ==
  \E ty \in {"payment_intent.succeeded", "payment_intent.payment_failed"},
     pi \in DeliverableIntents :
    /\ UsageBelowBound
    /\ HandleWebhook("verified", ty, pi, FALSE)

NextSheet ==
  \/ LifecycleBooking
  \/ PaymentSheet
  \/ LateSheet
  \/ SheetWebhook

SpecSheet == Init /\ [][NextSheet]_vars

\* C14: createPaymentSheet on a booking that is not pending is rejected as
\* already processed and leaves the booking (its total included), the
\* payment intents and the customers unchanged, whatever totalAmount the
\* request carries.
C14_RejectedSheetChangesNothing ==
  [][\A id \in BookingIdRequests :
       (/\ FindBooking(id) # 0
        /\ bookings[FindBooking(id)].status # "pending"
        /\ \E amt \in AmountsFor(id), fa \in BOOLEAN, sf \in StripeFailures :
             CreatePaymentSheet(id, amt, fa, sf)) =>
         /\ response'.code = 400
         /\ response'.body.error = "Booking already processed"
         /\ UNCHANGED <<bookings, intents, customers>>]_vars

\* ---- travel dates, trip search and closed dates
\* Friday and Saturday as calendar strings, and Friday 06:00 and 12:00 UTC
\* as timestamps (the second rolls to Saturday).
DateTexts ==
  {CalendarText(1), CalendarText(2), TimestampText(30), TimestampText(36)}

RouteIdRequests == {0, 1, 2}

DateBooking ==
  \E r \in RouteRequests, x \in DateTexts :
    /\ Len(bookings) < MaxBookings
    /\ CreateBooking(r[1], r[2], ParseDate(x), "Ana Pop", "", None)

Search == \E r \in RouteRequests, x \in DateTexts : SearchTrip(r[1], r[2], x)

CloseDate == \E id \in RouteIdRequests, x \in DateTexts : AddClosedDate(id, x)

ReopenDate ==
  \E id \in RouteIdRequests, x \in DateTexts : RemoveClosedDate(id, x)

NextDates ==
  \/ DateBooking
  \/ Search
  \/ CloseDate
  \/ ReopenDate

SpecDates == Init /\ [][NextDates]_vars

\* The date-key createBooking and searchTrip compare against closedDates.
TravelKey(x) == formatDateKey(normalizeTravelDate(ParseDate(x)))

\* The weekday rule a route states excludes the travel day of x.
WeekdayExcluded(route, x) ==
  /\ route.availableDays # {}
  /\ getUTCDay(normalizeTravelDate(ParseDate(x))) \notin route.availableDays

\* This step is createBooking(r, x) on a route that exists and is active.
Books(r, x) ==
  /\ FindRoute(r[1], r[2]) # 0
  /\ CreateBooking(r[1], r[2], ParseDate(x), "Ana Pop", "", None)

\* This step is searchTrip(r, x) on a route that exists and is active.
Searches(r, x) ==
  /\ FindRoute(r[1], r[2]) # 0
  /\ SearchTrip(r[1], r[2], x)

RouteOf(r) == routes[FindRoute(r[1], r[2])]

\* C15 as stated: whenever the travel day's date-key is in the route's
\* closedDates, createBooking fails with the date-closed rejection, also
\* when the weekday is not in a non-empty availableDays.
C15_ClosedDateWins ==
  [][\A r \in RouteRequests, x \in DateTexts :
       (Books(r, x) /\ TravelKey(x) \in RouteOf(r).closedDates) =>
         /\ response'.code = 400
         /\ response'.body.error = "Route closed on selected date"]_vars

\* C15 amended: whenever the travel day's date-key is in the route's
\* closedDates, createBooking stores no booking and fails with the
\* date-closed rejection if the route's availableDays is empty or holds the
\* travel day's weekday, and with the day-not-available rejection otherwise
\* (the weekday check comes first).
C15_ClosedDateRejected ==
  [][\A r \in RouteRequests, x \in DateTexts :
       (Books(r, x) /\ TravelKey(x) \in RouteOf(r).closedDates) =>
         /\ response'.code = 400
         /\ bookings' = bookings
         /\ response'.body.error =
              IF WeekdayExcluded(RouteOf(r), x)
              THEN "Route not available on selected date"
              ELSE "Route closed on selected date"]_vars

\* A booking was refused as date-closed on a route that restricts weekdays
\* and has closed a day its weekdays allow and a day they exclude.
C15_Witness ==
  /\ response.op = "createBooking"
  /\ response.code = 400
  /\ response.body.error = "Route closed on selected date"
  /\ routes[2].closedDates = {1, 2}
  /\ routes[1].closedDates = {}
  /\ bookings = <<>>

\* Instants over two weeks, at four times of day.
WeekInstants ==
  {d * HoursPerDay + h : d \in 0..(2 * DaysPerWeek - 1), h \in {0, 6, 12, 18}}

\* C16: on an active route whose availableDays is empty, searchTrip and
\* createBooking accept every travel date whose date-key is not in
\* closedDates, whatever its weekday.
C16_EveryDayAvailable ==
  [][/\ \A i \in 1..Len(routes), t \in WeekInstants :
          (routes[i].availableDays = {}
             /\ formatDateKey(normalizeTravelDate(t))
                  \notin routes[i].closedDates) =>
            Availability(routes[i], t) = "ok"
     /\ \A r \in RouteRequests, x \in DateTexts :
          (/\ FindRoute(r[1], r[2]) # 0
           /\ RouteOf(r).availableDays = {}
           /\ TravelKey(x) \notin RouteOf(r).closedDates) =>
            /\ Books(r, x) =>
                 /\ response'.code = 201
                 /\ Len(bookings') = Len(bookings) + 1
                 /\ bookings'[Len(bookings')].date
                      = normalizeTravelDate(ParseDate(x))
            /\ Searches(r, x) => response'.code = 200]_vars

\* A Saturday booking was accepted on the route without weekday rule while
\* its Friday is closed.
C16_Witness ==
  /\ response.op = "createBooking"
  /\ response.code = 201
  /\ routes[1].availableDays = {}
  /\ routes[1].closedDates = {1}
  /\ \E b \in 1..Len(bookings) :
       /\ bookings[b].from = "A" /\ bookings[b].to = "B"
       /\ getUTCDay(bookings[b].date) = 6

\* C17: date-keys compare equal across entry points.  addClosedDate(id, x)
\* puts the key searchTrip and createBooking derive from x into the route's
\* closedDates; while that key is there, searchTrip and createBooking with
\* x are rejected and no booking is stored; a key leaves closedDates only
\* in a removeClosedDate step; and removeClosedDate(id, x) removes exactly
\* that key.
C17_KeysAgree ==
  [][/\ \A id \in 1..Len(routes), x \in DateTexts :
          /\ AddClosedDate(id, x) =>
               routes'[id].closedDates
                 = routes[id].closedDates \cup {TravelKey(x)}
          /\ RemoveClosedDate(id, x) =>
               routes'[id].closedDates
                 = routes[id].closedDates \ {TravelKey(x)}
     /\ \A r \in RouteRequests, x \in DateTexts :
          (FindRoute(r[1], r[2]) # 0
             /\ TravelKey(x) \in RouteOf(r).closedDates) =>
            /\ Books(r, x) => response'.code = 400 /\ bookings' = bookings
            /\ Searches(r, x) => response'.code = 400 /\ bookings' = bookings
     /\ \A i \in 1..Len(routes) :
          ~(routes[i].closedDates \subseteq routes'[i].closedDates) =>
            response'.op = "removeClosedDate"]_vars

\* Saturday is closed on the unrestricted route, which a calendar string or
\* the timestamp of Friday noon does, and a later search was refused.
C17_Witness ==
  /\ response.op = "searchTrip"
  /\ response.code = 400
  /\ response.body.error = "Route closed on selected date"
  /\ routes[1].closedDates = {2}
  /\ routes[2].closedDates = {1}

\* ------------------------------------------- webhook deliveries that go wrong
NextWebhook ==
  \/ LifecycleBooking
  \/ PlainPaymentSheet
  \/ VerifiedWebhook
  \/ StorageFailure
  \/ CancelFailure
  \/ EmailFailure

SpecWebhook == Init /\ [][NextWebhook]_vars

\* A step in which handleWebhook processed an event whose signature verified.
VerifiedDelivery ==
  \/ \E ty \in EventTypes, pi \in DeliverableIntents, pf \in BOOLEAN :
       HandleWebhook("verified", ty, pi, pf)
  \/ \E pi \in DeliverableIntents, i \in DOMAIN SuccessStorageCalls :
       HandleWebhookStorageFails(pi, SuccessStorageCalls[i])
  \/ \E pi \in DeliverableIntents : HandleWebhookCancelFails(pi)
  \/ \E pi \in DeliverableIntents : HandleWebhookEmailFails(pi)

\* C18: a webhook request whose signature verifies is answered with status
\* 200 and received = true, whatever the event type and however the event
\* handler ends: missing bookingId, unknown booking, a database call that
\* throws, a ticket that cannot be rendered, an e-mail that cannot be sent.
C18_VerifiedAlwaysAcknowledged ==
  [][VerifiedDelivery =>
       /\ response'.op = "webhook"
       /\ response'.code = 200
       /\ response'.body.received]_vars

\* A success event was acknowledged although the database failed after the
\* booking had been saved as paid and before its ticket was stored.
C18_Witness ==
  /\ response.op = "webhook"
  /\ response.code = 200
  /\ response.body.type = "payment_intent.succeeded"
  /\ response.body.outcome = "storage failure"
  /\ response.body.error = "Processing failed but acknowledged"
  /\ \E b \in 1..Len(bookings) :
       /\ response.body.bookingId = Some(b)
       /\ bookings[b].status = "paid"
       /\ TicketsOf(tickets, b) = {}

\* A step in which a success event for booking b was processed up to the
\* delivery of the ticket, and the rendering or the e-mail failed.
DeliveryFailed(b) ==
  /\ response'.op = "webhook"
  /\ response'.code = 200
  /\ response'.body.type = "payment_intent.succeeded"
  /\ response'.body.bookingId = Some(b)
  /\ response'.body.outcome
       \in {"ticket rendering failed", "processed, email failed"}
  /\ response' # response

\* C19: when rendering the ticket or sending the e-mail fails, the response
\* to the success event carries no indication that processing failed.
C19_DeliveryFailureNotReported ==
  [][\A b \in 1..Len(bookings) :
       DeliveryFailed(b) => response'.body.error = ""]_vars

\* A step in which a success event for booking b was answered.
SuccessAnswered(b) ==
  /\ response'.op = "webhook"
  /\ response'.code = 200
  /\ response'.body.type = "payment_intent.succeeded"
  /\ response'.body.bookingId = Some(b)
  /\ response' # response

\* C20: after a success event whose ticket rendering or e-mail failed, the
\* booking is paid, its promo code has been counted once, and the booking has
\* exactly one ticket; a success event for a booking that has a ticket leaves
\* every ticket as it was.
C20_DeliveryFailureKeepsState ==
  [][\A b \in 1..Len(bookings) :
       /\ DeliveryFailed(b) =>
            /\ bookings'[b].status = "paid"
            /\ promos' = OneIncrement(bookings[b])
            /\ Cardinality(TicketsOf(tickets', b)) = 1
            /\ \A t \in 1..Len(tickets) : tickets'[t] = tickets[t]
       /\ (SuccessAnswered(b) /\ TicketsOf(tickets, b) # {}) =>
            tickets' = tickets]_vars

\* The rendering failed for a booking made with a promo code: the booking is
\* paid, the code was counted and the ticket is stored.
C20_Witness ==
  /\ response.op = "webhook"
  /\ response.body.type = "payment_intent.succeeded"
  /\ response.body.outcome = "ticket rendering failed"
  /\ \E b \in 1..Len(bookings) :
       /\ response.body.bookingId = Some(b)
       /\ bookings[b].status = "paid"
       /\ bookings[b].promoCode = Some("SAVE10")
       /\ promos["SAVE10"].usageCount >= 1
       /\ Cardinality(TicketsOf(tickets, b)) = 1
       /\ \A t \in TicketsOf(tickets, b) : ~tickets[t].isUsed

\* ------------------------------------------------- webhook authentication
\* A webhook request that fails authentication, carrying any event.
ForgedWebhook ==
  \E a \in WebhookAuth \ {"verified"}, ty \in EventTypes,
     pi \in DeliverableIntents :
    HandleWebhook(a, ty, pi, FALSE)

NextForged ==
  \/ LifecycleBooking
  \/ PlainPaymentSheet
  \/ ForgedWebhook
  \/ VerifiedWebhook
  \/ Clock

SpecForged == Init /\ [][NextForged]_vars

\* C21: a webhook request with no signature header, with no configured
\* secret, or whose signature does not verify changes no booking, ticket or
\* promo code, runs no event handler, and is answered 400 (500 when the
\* secret is not configured).
C21_UnverifiedChangesNothing ==
  [][\A a \in WebhookAuth \ {"verified"} :
       (\E ty \in EventTypes, pi \in DeliverableIntents, pf \in BOOLEAN :
          HandleWebhook(a, ty, pi, pf)) =>
         /\ UNCHANGED <<bookings, tickets, promos>>
         /\ response'.code = IF a = "no secret" THEN 500 ELSE 400
         /\ "outcome" \notin DOMAIN response'.body]_vars

\* A request whose signature did not verify was refused while a pending
\* booking was waiting for the payment its event would have confirmed.
C21_Witness ==
  /\ response.op = "webhook"
  /\ response.code = 400
  /\ response.body.error = "Webhook signature verification failed"
  /\ \E b \in 1..Len(bookings) :
       /\ bookings[b].status = "pending"
       /\ IsSome(bookings[b].paymentIntentId)
       /\ bookings[b].promoCode = Some("SAVE10")
       /\ promos["SAVE10"].usageCount = 0
       /\ TicketsOf(tickets, b) = {}

\* ------------------- interleaved payments of bookings sharing a promo code
\* The webhook receives the payment-success event of a booking for which no
\* event has been received yet.
ReceiveFirst ==
  \E i \in 1..Len(intents) :
    /\ \A d \in 1..Len(deliveries) :
         deliveries[d].paymentIntent.bookingId # intents[i].bookingId
    /\ ReceiveSuccess(EventObject(intents[i]))

NextShared ==
  \/ PromoBooking
  \/ PromoPaymentSheet
  \/ ReceiveFirst
  \/ \E d \in 1..Len(deliveries) : DeliveryFindBooking(d)
  \/ \E d \in 1..Len(deliveries) : DeliverySaveBooking(d)
  \/ \E d \in 1..Len(deliveries) : DeliveryIncrementUsage(d)
  \/ \E d \in 1..Len(deliveries) : DeliveryFindTicket(d)
  \/ \E d \in 1..Len(deliveries) : DeliverySaveTicket(d)
  \/ \E d \in 1..Len(deliveries), pf \in BOOLEAN : DeliveryRenderPdf(d, pf)
  \/ \E d \in 1..Len(deliveries) : DeliveryRespond(d)

SpecShared == Init /\ [][NextShared]_vars

\* The deliveries whose booking carries a promo code.
DeliveriesWith(code) ==
  {d \in 1..Len(deliveries) :
     bookings[FindBooking(Val(deliveries[d].paymentIntent.bookingId))]
       .promoCode = Some(code)}

\* C22: when the payment-success events of N distinct pending bookings that
\* share a promo code have been processed, under any interleaving of their
\* database calls, the code's usageCount has increased by exactly N.
C22_NoLostUpdate ==
  AllDelivered =>
    \A c \in DOMAIN promos :
      promos[c].usageCount =
        SeedPromos[c].usageCount + Cardinality(DeliveriesWith(c))

\* Two bookings made with the same code have both been paid, and the code
\* counts two uses.
C22_Witness ==
  /\ AllDelivered
  /\ Cardinality(DeliveriesWith("SAVE10")) = 2
  /\ promos["SAVE10"].usageCount = 2

\* ------------------------------------------------------------ status order
\* C23: every booking is pending when createBooking stores it, and a booking
\* whose status is paid or cancelled is never pending again, whatever
\* operations follow.
C23_NeverBackToPending ==
  [][/\ Len(bookings') >= Len(bookings)
     /\ \A b \in 1..Len(bookings') :
          IF b > Len(bookings)
          THEN bookings'[b].status = "pending"
          ELSE bookings[b].status # "pending" =>
                 bookings'[b].status # "pending"]_vars

\* A booking was paid and then cancelled by a payment-failed event, and a
\* payment-sheet request for it has been refused.
C23_Witness ==
  /\ response.op = "createPaymentSheet"
  /\ response.code = 400
  /\ \E b \in 1..Len(bookings) :
       /\ bookings[b].status = "cancelled"
       /\ TicketsOf(tickets, b) # {}

\* ------------------------------------------------------- pricing scenarios
\* Base prices of the quoted route: below and above the price at which 1.5
\* percent exceeds the minimum fee, and one whose 10 percent exceeds the cap
\* of the promo code.
ScenarioPrices == {12500, 20000, 25000}

\* The route of the pricing scenario, with no student discount configured.
ScenarioRoute(basePrice) ==
  [from |-> "K", to |-> "V", basePrice |-> basePrice, currency |-> "RON",
   departureTime |-> "07:00", arrivalTime |-> "15:00", active |-> TRUE,
   availableDays |-> {}, studentDiscount |-> None, closedDates |-> {}]

InitScenario ==
  /\ \E basePrice \in ScenarioPrices : routes = <<ScenarioRoute(basePrice)>>
  /\ promos = SeedPromos
  /\ bookings = <<>>
  /\ tickets = <<>>
  /\ customers = <<>>
  /\ intents = <<>>
  /\ now = 0
  /\ response = Reply("none", 0, [error |-> ""])
  /\ deliveries = <<>>
  /\ redemptions = <<>>

ScenarioBooking ==
  \E d \in DateRequests, c \in PromoRequests, sd \in StudentRequests :
    /\ Len(bookings) < MaxBookings
    /\ CreateBooking("K", "V", d, "Ana Pop", c, sd)

NextScenario ==
  \/ ScenarioBooking
  \/ PlainPaymentSheet
  \/ SuccessWebhook
  \/ Clock

SpecScenario == InitScenario /\ [][NextScenario]_vars

\* createBooking has just stored a booking for a route of base price 125
\* with the 10 percent code capped at 20 and no student discount.
ScenarioBooked ==
  /\ response.op = "createBooking"
  /\ response.code = 201
  /\ Created.subtotal = 12500
  /\ Created.promoCode = Some("SAVE10")
  /\ Created.studentDiscount = 0

\* C24 as stated: for a route with basePrice 125, a usable promo code of 10
\* percent capped at 20 and no student discount, createBooking yields
\* discount 12.5, fee 1.88 and total 114.38.
C24_ScenarioAsQuoted ==
  ScenarioBooked =>
    /\ Created.discount = 1250
    /\ Created.fees = 188
    /\ Created.total = 11438

\* C24 amended: in that scenario createBooking yields discount 12.5, the
\* minimum fee 3 (1.5 percent of 125 is 1.88, below the minimum) and
\* total 125 + 3 - 12.5 = 115.5.
C24_ScenarioWithMinimumFee ==
  ScenarioBooked =>
    /\ Created.discount = 1250
    /\ Created.fees = 300
    /\ Created.total = 11550

\* The scenario's booking has been stored.
C24_Witness ==
  /\ ScenarioBooked
  /\ Created.discount = 1250
  /\ Created.total = 11550
  /\ promos["SAVE10"].discountPercent = 10
  /\ promos["SAVE10"].maxDiscount = 2000

\* ------------------------------------------------------ the civil calendar
\* The calendar of Date: the year of day 0, and the lengths of years and
\* months.
EpochYear == 1970
MonthsPerYear == 12

IsLeapYear(y) == (y % 4 = 0 /\ y % 100 # 0) \/ y % 400 = 0

DaysInYear(y) == IF IsLeapYear(y) THEN 366 ELSE 365

DaysInMonth(y, m) ==
  IF m = 2 THEN (IF IsLeapYear(y) THEN 29 ELSE 28)
  ELSE IF m \in {4, 6, 9, 11} THEN 30
  ELSE 31

RECURSIVE DaysBeforeYear(_)
DaysBeforeYear(y) ==
  IF y <= EpochYear THEN 0 ELSE DaysBeforeYear(y - 1) + DaysInYear(y - 1)

RECURSIVE DaysBeforeMonth(_, _)
DaysBeforeMonth(y, m) ==
  IF m <= 1 THEN 0 ELSE DaysBeforeMonth(y, m - 1) + DaysInMonth(y, m - 1)

\* The day number of a calendar date: what new Date("YYYY-MM-DDT00:00:00.000Z")
\* holds, in days.
MakeDay(y, m, d) == DaysBeforeYear(y) + DaysBeforeMonth(y, m) + d - 1

RECURSIVE YearFrom(_, _)
YearFrom(y, n) ==
  IF n < DaysInYear(y) THEN y ELSE YearFrom(y + 1, n - DaysInYear(y))

RECURSIVE MonthFrom(_, _, _)
MonthFrom(y, m, n) ==
  IF n < DaysInMonth(y, m) THEN <<m, n + 1>>
  ELSE MonthFrom(y, m + 1, n - DaysInMonth(y, m))

\* toISOString().split('T')[0] of an instant: <<year, month, day>>.
toISODate(t) ==
  LET n == UTCDayNumber(t)
      y == YearFrom(EpochYear, n)
      md == MonthFrom(y, 1, n - DaysBeforeYear(y))
  IN  <<y, md[1], md[2]>>

\* The dates clients send: a bare calendar string, or a timestamp with an
\* hour of the day, on days at the end of a month, of February in a common
\* and in a leap year, and of a year.
TravelDays ==
  {<<1970, 1, 30>>, <<1970, 1, 31>>, <<1970, 2, 28>>, <<1970, 12, 31>>,
   <<1972, 2, 28>>, <<1972, 2, 29>>}
TravelHours == {0, 11, 12, 23}
TravelInputs ==
  {[kind |-> "calendar", ymd |-> c, hour |-> 0] : c \in TravelDays}
    \cup {[kind |-> "timestamp", ymd |-> c, hour |-> h] :
            c \in TravelDays, h \in TravelHours}

\* The request text of an input, as the date handlers read it.
TextOf(input) ==
  LET day == MakeDay(input.ymd[1], input.ymd[2], input.ymd[3])
  IN  IF input.kind = "calendar" THEN CalendarText(day)
      ELSE TimestampText(day * HoursPerDay + input.hour)

CivilBooking ==
  \E input \in TravelInputs :
    /\ Len(bookings) < MaxBookings
    /\ CreateBooking("A", "B", ParseDate(TextOf(input)), "Ana Pop", "", None)

CivilSearch ==
  \E input \in TravelInputs : SearchTrip("A", "B", TextOf(input))

NextCalendar ==
  \/ CivilBooking
  \/ CivilSearch
  \/ PlainPaymentSheet

SpecCalendar == Init /\ [][NextCalendar]_vars

\* The calendar day after a calendar day.
NextCivilDay(c) ==
  IF c[3] < DaysInMonth(c[1], c[2]) THEN <<c[1], c[2], c[3] + 1>>
  ELSE IF c[2] < MonthsPerYear THEN <<c[1], c[2] + 1, 1>>
  ELSE <<c[1] + 1, 1, 1>>

\* The travel day the normalization rule gives an input.
TravelDayOf(input) ==
  IF input.kind = "calendar" \/ input.hour < NoonHour THEN input.ymd
  ELSE NextCivilDay(input.ymd)

\* A travel day is UTC midnight of the expected calendar day and is
\* normalized to itself.
IsTravelDay(t, input) ==
  /\ getUTCHours(t) = 0
  /\ toISODate(t) = TravelDayOf(input)
  /\ normalizeTravelDate(t) = t
  /\ formatDateKey(t) = UTCDayNumber(t)

\* C25: normalizeTravelDate maps an instant to UTC midnight of the same UTC
\* calendar day when its UTC hour is below 12 and of the next calendar day
\* (across month and year ends) when it is 12 or more; a bare YYYY-MM-DD
\* string maps to its own date-key; normalizing the result again returns
\* it.  Stated on the travel day createBooking stores and searchTrip
\* reports for every input.
C25_TravelDayRule ==
  [][\A input \in TravelInputs :
       /\ (/\ response'.op = "createBooking"
           /\ Len(bookings') > Len(bookings)
           /\ bookings'[Len(bookings')].date
                = normalizeTravelDate(ParseDate(TextOf(input)))
           /\ CreateBooking("A", "B", ParseDate(TextOf(input)), "Ana Pop",
                            "", None)) =>
            IsTravelDay(bookings'[Len(bookings')].date, input)
       /\ (/\ response'.op = "searchTrip"
           /\ response'.code = 200
           /\ response'.body.travelDate
                = normalizeTravelDate(ParseDate(TextOf(input)))
           /\ SearchTrip("A", "B", TextOf(input))) =>
            /\ IsTravelDay(response'.body.travelDate, input)
            /\ toISODate(formatDateKeyText(TextOf(input)) * HoursPerDay)
                 = TravelDayOf(input)]_vars

\* A booking was stored for the first day of the year after a request made
\* for the evening of 31 December.
C25_Witness ==
  /\ response.op = "createBooking"
  /\ response.code = 201
  /\ toISODate(Created.date) = <<1971, 1, 1>>
  /\ Created.date = normalizeTravelDate(MakeDay(1970, 12, 31) * HoursPerDay + 23)

\* ------------------------------------------------- what createBooking stores
\* A route record that admits a booking for a travel day.
Admits(route, booking) ==
  /\ route.from = booking.from
  /\ route.to = booking.to
  /\ route.active
  /\ route.availableDays = {} \/ getUTCDay(booking.date) \in route.availableDays
  /\ UTCDayNumber(booking.date) \notin route.closedDates

\* C26: createBooking stores a booking only if the route it read is active,
\* its availableDays is empty or holds the UTC weekday of the travel day, and
\* its closedDates does not hold the travel day's date-key; the stored
\* booking is pending and has no paymentIntentId; a rejected request (route
\* not found or inactive, day not available, date closed) stores no booking;
\* no createBooking request changes any other record.
C26_StoresOnlyAdmitted ==
  [][/\ Len(bookings') # Len(bookings) =>
          /\ response'.op = "createBooking"
          /\ response'.code = 201
          /\ bookings' = Append(bookings, bookings'[Len(bookings')])
          /\ \E r \in 1..Len(routes) :
               Admits(routes[r], bookings'[Len(bookings')])
          /\ bookings'[Len(bookings')].status = "pending"
          /\ bookings'[Len(bookings')].paymentIntentId = None
     /\ (response'.op = "createBooking" /\ response' # response) =>
          /\ UNCHANGED <<routes, promos, tickets, customers, intents>>
          /\ response'.code \in {201, 400, 404}
          /\ response'.code # 201 => bookings' = bookings]_vars

\* A booking was stored on the route that runs on two weekdays and has a
\* closed date.
C26_Witness ==
  /\ response.op = "createBooking"
  /\ response.code = 201
  /\ Created.from = "A"
  /\ Created.to = "C"
  /\ Created.status = "pending"
  /\ \E r \in 1..Len(routes) :
       /\ Admits(routes[r], Created)
       /\ routes[r].availableDays # {}
       /\ routes[r].closedDates # {}

\* ------------------------------------------------ requests for no booking
\* The event objects that name a bookingId for which no booking is stored.
OrphanIntents ==
  {pi \in DeliverableIntents :
     IsSome(pi.bookingId) /\ FindBooking(Val(pi.bookingId)) = 0}

\* A payment-sheet request that names a bookingId no booking has.
UnknownSheet ==
  \E id \in BookingIdRequests, amt \in AmountRequests,
     sf \in StripeFailures :
    /\ FindBooking(id) = 0
    /\ CreatePaymentSheet(id, amt, FALSE, sf)

NextOrphan ==
  \/ LifecycleBooking
  \/ PlainPaymentSheet
  \/ UnknownSheet
  \/ SheetWebhook
  \/ Clock

SpecOrphan == Init /\ [][NextOrphan]_vars

\* C27: createPaymentSheet, a payment-success event and a payment-failed
\* event that name a bookingId for which no booking is stored all end with
\* not-found and change nothing: no booking, ticket, customer or intent is
\* created and no usageCount changes.
C27_UnknownBookingChangesNothing ==
  [][/\ \A id \in {i \in BookingIdRequests : FindBooking(i) = 0} :
          (/\ response'.op = "createPaymentSheet"
           /\ \E amt \in AmountRequests, fa \in BOOLEAN,
                 sf \in StripeFailures :
                CreatePaymentSheet(id, amt, fa, sf)) =>
            /\ response'.code = 404
            /\ response'.body.error = "Booking not found"
            /\ UNCHANGED <<bookings, tickets, customers, intents, promos>>
     /\ \A pi \in OrphanIntents :
          (/\ response'.op = "webhook"
           /\ \E ty \in {"payment_intent.succeeded",
                          "payment_intent.payment_failed"}, pf \in BOOLEAN :
                HandleWebhook("verified", ty, pi, pf)) =>
            /\ response'.body.outcome = "booking not found"
            /\ response'.body.error = "Processing failed but acknowledged"
            /\ UNCHANGED <<bookings, tickets, customers, intents, promos>>]_vars

\* A payment-failed event for an unknown bookingId ended with not-found
\* while a paid booking with its ticket and counted promo code was stored.
C27_Witness ==
  /\ response.op = "webhook"
  /\ response.body.type = "payment_intent.payment_failed"
  /\ response.body.outcome = "booking not found"
  /\ \E b \in 1..Len(bookings) :
       /\ bookings[b].status = "paid"
       /\ bookings[b].promoCode = Some("SAVE10")
       /\ promos["SAVE10"].usageCount = 1
       /\ Cardinality(TicketsOf(tickets, b)) = 1

\* --------------------------------------------------- validateQRCode verdicts
\* The tickets that carry a token.
TicketsWith(q) == {t \in 1..Len(tickets) : tickets[t].qrToken = q}

\* The bookings of a ticket that are paid.
PaidBookingsOf(t) ==
  {b \in 1..Len(bookings) :
     bookings[b].bookingId = tickets[t].bookingId
       /\ bookings[b].status = "paid"}

\* The answer flags of a response body.
Flag(body, name) == name \in DOMAIN body /\ body[name]

\* C28: validateQRCode changes no state and decides in this order: ticket
\* not found (404), booking not confirmed (400: booking absent or not paid),
\* alreadyUsed with usedAt, expired, valid.  A used ticket whose booking is
\* not paid is answered booking-not-confirmed; a used ticket with a past
\* travel day is answered alreadyUsed, not expired.
C28_VerdictPrecedence ==
  [][\A q \in TokenRequests, tz \in UtcOffsets :
       (response'.op = "validateQRCode" /\ ValidateQRCode(q, tz)) =>
         /\ UNCHANGED <<routes, promos, bookings, tickets, customers,
                        intents>>
         /\ IF TicketsWith(q) = {}
            THEN /\ response'.code = 404
                 /\ response'.body.error = "Ticket not found"
            ELSE \A t \in TicketsWith(q) :
                   IF PaidBookingsOf(t) = {}
                   THEN /\ response'.code = 400
                        /\ response'.body.error = "Booking not confirmed"
                   ELSE /\ response'.code = 200
                        /\ Flag(response'.body, "alreadyUsed")
                             <=> tickets[t].isUsed
                        /\ tickets[t].isUsed =>
                             /\ response'.body.usedAt = tickets[t].usedAt
                             /\ ~Flag(response'.body, "expired")
                             /\ ~Flag(response'.body, "valid")
                        /\ Flag(response'.body, "expired") =>
                             ~Flag(response'.body, "valid")
                        /\ ~tickets[t].isUsed =>
                             (Flag(response'.body, "expired")
                                \/ Flag(response'.body, "valid"))]_vars

\* A used ticket whose travel day has passed was answered alreadyUsed.
C28_Witness ==
  /\ response.op = "validateQRCode"
  /\ response.code = 200
  /\ Flag(response.body, "alreadyUsed")
  /\ \E t \in 1..Len(tickets) :
       /\ tickets[t].ticketId = response.body.ticketId
       /\ tickets[t].isUsed
       /\ PaidBookingsOf(t) # {}
       /\ UTCDayNumber(tickets[t].date) < UTCDayNumber(now)

\* ------------------------------------------------------------ ticket expiry
\* The hours by which the clock advances within a day.
ClockHours == {6, 18}

\* The offsets from UTC (in hours) of the time zones the server may run in.
ServerOffsets == {-5, 0, 2}

\* Time passes between requests.
Pass(hours) ==
  /\ now' = now + hours
  /\ UNCHANGED <<routes, promos, bookings, tickets, customers, intents,
                 response, deliveries, redemptions>>

HourClock ==
  \E h \in ClockHours :
    /\ now + h <= MaxTicks * ClockStep
    /\ Pass(h)

\* A booking for the first or the second day.
DayBooking ==
  \E d \in {0, HoursPerDay} :
    /\ Len(bookings) < MaxBookings
    /\ CreateBooking("A", "B", d, "Ana Pop", "", None)

ZonedTicketCheck ==
  \E q \in TokenRequests, tz \in ServerOffsets : ValidateQRCode(q, tz)

NextExpiry ==
  \/ DayBooking
  \/ PlainPaymentSheet
  \/ SuccessWebhook
  \/ ZonedTicketCheck
  \/ HourClock

SpecExpiry == Init /\ [][NextExpiry]_vars

\* The calendar day it is on the server's clock, as a day number.
ServerDay(t, utcOffset) == (t + utcOffset) \div HoursPerDay

\* C29: validateQRCode answers expired for an unused ticket of a paid
\* booking exactly when the ticket's travel day is before the current
\* calendar day, in every server time zone; a ticket for the current day is
\* not expired at any hour of that day.
C29_ExpiredIffPastDay ==
  [][\A q \in TokenRequests, tz \in ServerOffsets :
       (response'.op = "validateQRCode" /\ ValidateQRCode(q, tz)) =>
         \A t \in TicketsWith(q) :
           (PaidBookingsOf(t) # {} /\ ~tickets[t].isUsed) =>
             (Flag(response'.body, "expired")
                <=> UTCDayNumber(tickets[t].date) < ServerDay(now, tz))]_vars

\* C29, its second half alone: a ticket whose travel day is the current day
\* both on the server's clock and in UTC is not answered expired.
C29_TravelDayNotExpired ==
  [][\A q \in TokenRequests, tz \in ServerOffsets :
       (response'.op = "validateQRCode" /\ ValidateQRCode(q, tz)) =>
         \A t \in TicketsWith(q) :
           (/\ PaidBookingsOf(t) # {}
            /\ ~tickets[t].isUsed
            /\ UTCDayNumber(tickets[t].date) = ServerDay(now, tz)
            /\ UTCDayNumber(tickets[t].date) = UTCDayNumber(now)) =>
             ~Flag(response'.body, "expired")]_vars

\* ------------------------------------------------ promo codes at creation
\* The seeded codes with a deactivated code and a code whose validity
\* starts on the second day.
MixedPromos ==
  [c \in DOMAIN SeedPromos \cup {"OFF20", "SOON5"} |->
     IF c \in DOMAIN SeedPromos THEN SeedPromos[c]
     ELSE IF c = "OFF20"
     THEN [code |-> "OFF20", discountPercent |-> 20, discountFixed |-> 0,
           maxDiscount |-> 0, validFrom |-> 0, validUntil |-> 1000,
           usageLimit |-> 0, usageCount |-> 0, active |-> FALSE]
     ELSE [code |-> "SOON5", discountPercent |-> 0, discountFixed |-> 50,
           maxDiscount |-> 0, validFrom |-> 24, validUntil |-> 1000,
           usageLimit |-> 0, usageCount |-> 0, active |-> TRUE]]

InitCodes ==
  /\ routes = SeedRoutes
  /\ promos = MixedPromos
  /\ bookings = <<>>
  /\ tickets = <<>>
  /\ customers = <<>>
  /\ intents = <<>>
  /\ now = 0
  /\ response = Reply("none", 0, [error |-> ""])
  /\ deliveries = <<>>
  /\ redemptions = <<>>

\* The codes requests carry: usable ones (one in lowercase), a deactivated
\* one, one not yet valid, one that does not exist.
CodeRequests == {"save10", "FIXED5", "OFF20", "SOON5", "NOPE"}

CodeBooking ==
  \E c \in CodeRequests :
    /\ Len(bookings) < MaxPromoBookings
    /\ CreateBooking("A", "B", 0, "Ana Pop", c, None)

NextCodes ==
  \/ CodeBooking
  \/ PromoPaymentSheet
  \/ SuccessWebhook
  \/ Clock

SpecCodes == InitCodes /\ [][NextCodes]_vars

\* A stored code is usable now: active, within its validity window, and
\* unlimited or used fewer times than its limit.
UsableNow(code) ==
  /\ code \in DOMAIN promos
  /\ promos[code].active
  /\ promos[code].validFrom <= now
  /\ now <= promos[code].validUntil
  /\ promos[code].usageLimit = 0
       \/ promos[code].usageCount < promos[code].usageLimit

\* C30: createBooking records a promoCode on the booking and applies its
\* discount only if, when the booking is created, the code looked up in
\* uppercase is active, within [validFrom, validUntil], and unlimited or
\* below its usage limit; otherwise the booking is still created, with
\* discount 0 and no promoCode, and its later payment increments no
\* usageCount.
C30_PromoOnlyIfUsable ==
  [][/\ \A c \in CodeRequests :
          (/\ response'.op = "createBooking"
           /\ Len(bookings') > Len(bookings)
           /\ CreateBooking("A", "B", 0, "Ana Pop", c, None)) =>
            LET new == bookings'[Len(bookings')]
            IN  /\ response'.code = 201
                /\ IF UsableNow(toUpperCase(c))
                   THEN /\ new.promoCode = Some(toUpperCase(c))
                        /\ new.discount =
                             PromoDiscount(promos[toUpperCase(c)],
                                           new.subtotal)
                   ELSE /\ new.promoCode = None
                        /\ new.discount = 0
     /\ \A c \in DOMAIN promos :
          promos'[c] # promos[c] =>
            /\ response'.op = "webhook"
            /\ response'.code = 200
            /\ \E b \in 1..Len(bookings) :
                 /\ response'.body.bookingId = Some(b)
                 /\ bookings[b].promoCode = Some(c)]_vars

\* A booking requested with a code that was not usable has been paid: it
\* carries no code and no discount, and no usageCount moved with it.
C30_Witness ==
  /\ response.op = "webhook"
  /\ response.code = 200
  /\ response.body.outcome = "processed"
  /\ \E b \in 1..Len(bookings) :
       /\ response.body.bookingId = Some(b)
       /\ bookings[b].status = "paid"
       /\ bookings[b].promoCode = None
       /\ bookings[b].discount = 0
  /\ \A c \in DOMAIN promos :
       promos[c].usageCount =
         Cardinality({b \in 1..Len(bookings) :
                        bookings[b].status = "paid"
                          /\ bookings[b].promoCode = Some(c)})
  /\ promos["SAVE10"].usageCount = promos["SAVE10"].usageLimit

\* ------------------------------------------------------ the discount rule
\* A usable, unlimited code under every combination of its discount fields.
DiscountPercents == {0, 10, 15}
DiscountFixeds == {0, 500}
DiscountCaps == {0, 20, 2000}

DiscountShape(percent, fixed, cap) ==
  [code |-> "SAVE10", discountPercent |-> percent, discountFixed |-> fixed,
   maxDiscount |-> cap, validFrom |-> 0, validUntil |-> 1000,
   usageLimit |-> 0, usageCount |-> 0, active |-> TRUE]

\* Subtotals: 1.45 and 1.50 have a discount product at an exact half (10 and
\* 15 percent), 2.00 and 300.00 do not; 300.00 exceeds the larger cap.
DiscountSubtotals == {145, 150, 200, 30000}

InitDiscounts ==
  /\ \E basePrice \in DiscountSubtotals :
       routes = <<ScenarioRoute(basePrice)>>
  /\ \E percent \in DiscountPercents, fixed \in DiscountFixeds,
        cap \in DiscountCaps :
       promos = [c \in {"SAVE10"} |-> DiscountShape(percent, fixed, cap)]
  /\ bookings = <<>>
  /\ tickets = <<>>
  /\ customers = <<>>
  /\ intents = <<>>
  /\ now = 0
  /\ response = Reply("none", 0, [error |-> ""])
  /\ deliveries = <<>>
  /\ redemptions = <<>>

DiscountCheck ==
  \E st \in DiscountSubtotals : ValidatePromoCode("save10", st)

DiscountBooking ==
  /\ Len(bookings) < MaxBookings
  /\ CreateBooking("K", "V", 0, "Ana Pop", "save10", None)

NextDiscounts ==
  \/ DiscountCheck
  \/ DiscountBooking
  \/ PlainPaymentSheet

SpecDiscounts == InitDiscounts /\ [][NextDiscounts]_vars

\* The discount of a code on a subtotal as the rule states it, with the
\* percentage rounded to two decimals.
DiscountRule(promo, subtotal) ==
  IF promo.discountPercent > 0
  THEN IF promo.maxDiscount > 0
       THEN Min(RoundDiv(subtotal * promo.discountPercent, 100),
                promo.maxDiscount)
       ELSE RoundDiv(subtotal * promo.discountPercent, 100)
  ELSE IF promo.discountFixed > 0 THEN promo.discountFixed
  ELSE 0

\* C31: for every usable promo code and subtotal the computed discount is
\* round(subtotal * discountPercent / 100, 2), capped at maxDiscount when
\* maxDiscount > 0, if discountPercent > 0; else discountFixed if
\* discountFixed > 0; else 0, the code still counting as valid. maxDiscount
\* never caps a fixed discount and percent mode takes precedence.
C31_DiscountRule ==
  [][/\ \A st \in DiscountSubtotals :
          (response'.op = "validatePromoCode"
             /\ ValidatePromoCode("save10", st)) =>
            /\ response'.code = 200
            /\ response'.body.valid
            /\ response'.body.discount = DiscountRule(promos["SAVE10"], st)
     /\ (response'.op = "createBooking" /\ Len(bookings') > Len(bookings)) =>
          LET new == bookings'[Len(bookings')]
          IN  /\ new.promoCode = Some("SAVE10")
              /\ new.discount = DiscountRule(promos["SAVE10"], new.subtotal)
    ]_vars

\* C31 with the rounding the program performs: the same rule, the
\* percentage rounded by Math.round on the binary64 product.
C31_DiscountRuleInDoubles ==
  [][/\ \A st \in DiscountSubtotals :
          (response'.op = "validatePromoCode"
             /\ ValidatePromoCode("save10", st)) =>
            LET promo == promos["SAVE10"]
                pct == MathRound(st * promo.discountPercent, 100,
                                 <<st, promo.discountPercent>>
                                   \in DiscountHalfFallsShort)
            IN  /\ response'.code = 200
                /\ response'.body.valid
                /\ response'.body.discount =
                     IF promo.discountPercent > 0
                     THEN IF promo.maxDiscount > 0
                          THEN Min(pct, promo.maxDiscount) ELSE pct
                     ELSE IF promo.discountFixed > 0 THEN promo.discountFixed
                     ELSE 0
     /\ (response'.op = "createBooking" /\ Len(bookings') > Len(bookings)) =>
          bookings'[Len(bookings')].promoCode = Some("SAVE10")
    ]_vars

\* ------------------------------------------------------- the service fee
\* Base prices: free, below the point where 1.5 percent reaches the minimum
\* (200.00), at it, 201.00 and 203.00 whose 1.5 percent lies on a half
\* cent (3.015 and 3.045), and 300.00.
FeePrices == {0, 200, 20000, 20100, 20300, 30000}

InitFees ==
  /\ \E basePrice \in FeePrices : routes = <<ScenarioRoute(basePrice)>>
  /\ promos = SeedPromos
  /\ bookings = <<>>
  /\ tickets = <<>>
  /\ customers = <<>>
  /\ intents = <<>>
  /\ now = 0
  /\ response = Reply("none", 0, [error |-> ""])
  /\ deliveries = <<>>
  /\ redemptions = <<>>

SpecFees == InitFees /\ [][NextScenario]_vars

\* C32: for every booking created, fees = max(3, round(subtotal * 0.015,
\* 2)), so fees >= 3 for every basePrice >= 0 and fees exceed 3 only when
\* 1.5 percent of the subtotal rounds above 3.
C32_FeeRule ==
  \A b \in 1..Len(bookings) :
    /\ bookings[b].fees =
         Max(MinFee, RoundDiv(bookings[b].subtotal * FeePerMille, 1000))
    /\ bookings[b].fees >= MinFee
    /\ bookings[b].fees > MinFee =>
         RoundDiv(bookings[b].subtotal * FeePerMille, 1000) > MinFee

\* The bounds of C32 alone: the fee is never below the minimum and exceeds
\* it only when 1.5 percent of the subtotal, rounded, does.
C32_FeeBounds ==
  \A b \in 1..Len(bookings) :
    /\ bookings[b].fees >= MinFee
    /\ bookings[b].fees > MinFee =>
         RoundDiv(bookings[b].subtotal * FeePerMille, 1000) > MinFee

\* ------------------------------------------ the amount of a payment intent
\* C33: after a successful createPaymentSheet on a pending booking, the
\* amount of the created payment intent equals the booking's stored total,
\* for every totalAmount override: an override differing by more than 0.01
\* has replaced the stored total, an override within 0.01 leaves the stored
\* total as the amount charged.
C33_IntentAmountIsStoredTotal ==
  [][(response'.op = "createPaymentSheet" /\ response'.code = 200
        /\ Len(intents') > Len(intents)) =>
       LET paymentIntent == intents'[Len(intents')]
           b == FindBooking(Val(paymentIntent.bookingId))
       IN  /\ bookings[b].status = "pending"
           /\ paymentIntent.amount = bookings'[b].total
    ]_vars

\* ------------------------------------------------ tickets after issuance
\* The admin closes the first route for the epoch day.
FrameClose == AddClosedDate(1, CalendarText(0))

NextFrame ==
  \/ PlainBooking
  \/ PlainPaymentSheet
  \/ LateSheet
  \/ SheetWebhook
  \/ TicketCheck
  \/ TicketUse
  \/ FrameClose

SpecFrame == Init /\ [][NextFrame]_vars

\* A ticket without its redemption fields.
Issued(ticket) ==
  [f \in DOMAIN ticket \ {"isUsed", "usedAt"} |-> ticket[f]]

\* C34: an existing ticket is changed only by useTicket, and useTicket
\* changes only isUsed and usedAt: createPaymentSheet, payment-success
\* redeliveries, payment-failed events, validateQRCode and admin route
\* operations leave every other field of every existing ticket unchanged
\* (and the redemption fields too).
C34_TicketFrame ==
  [][/\ Len(tickets') >= Len(tickets)
     /\ \A t \in 1..Len(tickets) :
          /\ Issued(tickets'[t]) = Issued(tickets[t])
          /\ tickets'[t] # tickets[t] =>
               /\ response'.op = "useTicket"
               /\ response'.code = 200
               /\ response'.body.ticketId = tickets[t].ticketId
    ]_vars

\* A used ticket whose booking has since been cancelled by a payment-failed
\* event and whose booking's total was rewritten by a later payment sheet:
\* the ticket still shows the price it was issued with.
C34_Witness ==
  \E t \in 1..Len(tickets) :
    /\ tickets[t].isUsed
    /\ FindBooking(tickets[t].bookingId) # 0
    /\ bookings[FindBooking(tickets[t].bookingId)].status = "cancelled"
    /\ bookings[FindBooking(tickets[t].bookingId)].total # tickets[t].price

\* ------------------------------------- promo usage over a booking's events
\* The bookings that carry a promo code.
CarriedBy(code) ==
  {b \in 1..Len(bookings) : bookings[b].promoCode = Some(code)}

\* C35: for any sequence of payment-success and payment-failed events
\* processed one after another for a single booking that carries a promo
\* code, the code's usageCount is incremented at most once on behalf of
\* that booking: the count never exceeds its seeded value by more than the
\* number of bookings carrying the code.
C35_OneUsePerBooking ==
  \A c \in DOMAIN promos :
    promos[c].usageCount - SeedPromos[c].usageCount
      <= Cardinality(CarriedBy(c))

\* ---------------------------------------- redelivery after a failed handler
\* Success events are delivered, and delivered again, for as long as a
\* delivery would change anything; any database call of a delivery may fail.
NextRedelivery ==
  \/ LifecycleBooking
  \/ PlainPaymentSheet
  \/ SuccessWebhook
  \/ StorageFailure
  \/ EmailFailure
  \/ Clock

SpecRedelivery ==
  Init /\ [][NextRedelivery]_vars /\ WF_vars(SuccessWebhook)

\* The booking with index b is paid / has a ticket.
PaidAt(b) == b <= Len(bookings) /\ bookings[b].status = "paid"
TicketedAt(b) ==
  /\ b <= Len(bookings)
  /\ FindTicketByBooking(tickets, bookings[b].bookingId) # 0

\* C36: every booking that reaches status paid eventually has a ticket,
\* even when a step of the payment-success handler after the status write
\* fails: a redelivery of the same success event then issues the missing
\* ticket, so no booking stays paid without a ticket forever.
C36_PaidEventuallyTicketed ==
  \A b \in 1..MaxBookings : PaidAt(b) ~> TicketedAt(b)

\* ----------------------------------------------- redemption and validation
\* C37: useTicket succeeds only for a ticket that validateQRCode would
\* report as valid in the same state: it never marks as used a ticket whose
\* booking is missing or not paid, nor a ticket that is expired.
C37_UseOnlyValid ==
  [][\A q \in TokenRequests :
       (response'.op = "useTicket" /\ response'.code = 200
          /\ UseTicket(q)) =>
         \A tz \in UtcOffsets : ValidateVerdict(q, tz) = "valid"
    ]_vars

\* C37 for expiry alone: useTicket never marks as used a ticket of a paid
\* booking whose travel day has passed.
C37_NeverUsesExpired ==
  [][\A q \in TokenRequests :
       (response'.op = "useTicket" /\ response'.code = 200
          /\ UseTicket(q)) =>
         \A tz \in UtcOffsets : ValidateVerdict(q, tz) # "expired"
    ]_vars

\* --------------------------------------------- the price a ticket shows
\* C38: in every reachable state each ticket's price and currency equal the
\* total and currency of its booking, after any sequence of
\* createPaymentSheet calls and webhook events following issuance.
C38_TicketShowsBookingPrice ==
  \A t \in 1..Len(tickets) :
    LET b == FindBooking(tickets[t].bookingId)
    IN  /\ b # 0
        /\ tickets[t].price = bookings[b].total
        /\ tickets[t].currency = bookings[b].currency

\* ------------------------------------- search and booking decide alike
\* The error createBooking answers for a route pair and a date ("" when it
\* admits the booking), and the error searchTrip answers ("" when it
\* reports the trip available).
BookingDecision(r, x) ==
  IF FindRoute(r[1], r[2]) = 0 THEN "Route not found"
  ELSE IF Availability(RouteOf(r), ParseDate(x)) = "ok" THEN ""
  ELSE Availability(RouteOf(r), ParseDate(x))

SearchDecision(r, x) ==
  IF FindRoute(r[1], r[2]) = 0 THEN "Route not found"
  ELSE IF SearchAvailability(RouteOf(r), ParseDate(x)) = "ok" THEN ""
  ELSE SearchAvailability(RouteOf(r), ParseDate(x))

\* C39: for every route state and every date input, searchTrip and
\* createBooking take the same availability decision with the same
\* rejection reason: a searchTrip step answers what createBooking would
\* answer for that route record and date, a createBooking step answers what
\* searchTrip would, and a trip is reported available exactly when the
\* booking would be stored.
C39_SearchAgreesWithBooking ==
  [][\A r \in RouteRequests, x \in DateTexts :
       /\ (response'.op = "searchTrip" /\ SearchTrip(r[1], r[2], x)) =>
            /\ response'.body.error = BookingDecision(r, x)
            /\ response'.code = 200 <=> BookingDecision(r, x) = ""
       /\ (response'.op = "createBooking"
             /\ CreateBooking(r[1], r[2], ParseDate(x), "Ana Pop", "", None))
            =>
            /\ response'.body.error = SearchDecision(r, x)
            /\ Len(bookings') > Len(bookings) <=> SearchDecision(r, x) = ""
    ]_vars

\* searchTrip has just rejected a date that the admin closed after a booking
\* for it had been stored.
C39_Witness ==
  /\ response.op = "searchTrip"
  /\ response.code = 400
  /\ response.body.error = "Route closed on selected date"
  /\ \E b \in 1..Len(bookings), i \in 1..Len(routes) :
       /\ routes[i].from = bookings[b].from
       /\ routes[i].to = bookings[b].to
       /\ UTCDayNumber(bookings[b].date) \in routes[i].closedDates

\* ------------------------------ createBooking and validatePromoCode agree
\* The codes of MixedPromos and a usable code whose discount fields are
\* both 0.
AgreePromos ==
  [c \in DOMAIN MixedPromos \cup {"NIL0"} |->
     IF c \in DOMAIN MixedPromos THEN MixedPromos[c]
     ELSE [code |-> "NIL0", discountPercent |-> 0, discountFixed |-> 0,
           maxDiscount |-> 0, validFrom |-> 0, validUntil |-> 1000,
           usageLimit |-> 0, usageCount |-> 0, active |-> TRUE]]

\* The promo state at the start: SAVE10 unused or used up to its limit by
\* earlier payments, on the first day or on the next, when FIXED5 has
\* expired and SOON5 has become valid.
InitAgree ==
  /\ routes = SeedRoutes
  /\ \E used \in 0..SeedPromos["SAVE10"].usageLimit :
       promos = [AgreePromos EXCEPT !["SAVE10"].usageCount = used]
  /\ bookings = <<>>
  /\ tickets = <<>>
  /\ customers = <<>>
  /\ intents = <<>>
  /\ now \in {0, ClockStep}
  /\ response = Reply("none", 0, [error |-> ""])
  /\ deliveries = <<>>
  /\ redemptions = <<>>

AgreeRequests == CodeRequests \cup {"NIL0"}

\* The two bookable routes of the seed: base price 2.00, and 300.00 whose
\* 10 percent exceeds the cap of SAVE10.
AgreeRoutes == {<<"A", "B">>, <<"A", "C">>}

\* Bookings are made with the limited code on either route, and on the
\* cheaper route with the code that expires and the code that gives nothing.
AgreeBookings ==
  {<<<<"A", "B">>, "save10">>, <<<<"A", "C">>, "save10">>,
   <<<<"A", "B">>, "FIXED5">>, <<<<"A", "B">>, "NIL0">>}

AgreeBooking ==
  \E rc \in AgreeBookings :
    /\ Len(bookings) < MaxBookings
    /\ CreateBooking(rc[1][1], rc[1][2], now, "Ana Pop", rc[2], None)

AgreeCheck ==
  \E r \in AgreeRoutes, c \in AgreeRequests :
    ValidatePromoCode(c, RouteOf(r).basePrice)

NextAgree ==
  \/ AgreeBooking
  \/ AgreeCheck
  \/ PlainPaymentSheet

SpecAgree == InitAgree /\ [][NextAgree]_vars

\* The discount validatePromoCode's answer stands for: the discount it
\* returns when it reports the code valid, 0 when it reports it not found,
\* expired or exhausted.
AnsweredDiscount(answer) ==
  IF answer.code = 200 THEN answer.body.discount ELSE 0

\* A createBooking step for a route pair and a code stores a booking.
StoresWith(r, c) ==
  /\ response'.op = "createBooking"
  /\ Len(bookings') > Len(bookings)
  /\ CreateBooking(r[1], r[2], now, "Ana Pop", c, None)

\* C40 as stated: for every promo code, promo state and subtotal, the
\* discount createBooking stores for a route with basePrice = subtotal
\* equals the discount validatePromoCode returns when it reports the code
\* valid, and is 0 exactly when validatePromoCode reports the code as not
\* found, expired or exhausted.
C40_ZeroExactlyWhenInvalid ==
  [][\A r \in AgreeRoutes, c \in AgreeRequests :
       (response'.op = "validatePromoCode"
          /\ ValidatePromoCode(c, RouteOf(r).basePrice)) =>
         /\ response'.code = 200 =>
              ApplyPromo(c, RouteOf(r).basePrice)[1] = response'.body.discount
         /\ ApplyPromo(c, RouteOf(r).basePrice)[1] = 0
              <=> response'.code # 200
    ]_vars

\* C40 amended: the discount createBooking stores equals the discount
\* validatePromoCode returns for that code and subtotal in the same state
\* when it reports the code valid, and is 0 whenever validatePromoCode
\* reports the code as not found, expired or exhausted (a valid code may
\* give discount 0 as well, in both operations).
C40_SameDiscount ==
  [][\A r \in AgreeRoutes, c \in AgreeRequests :
       /\ (response'.op = "validatePromoCode"
             /\ ValidatePromoCode(c, RouteOf(r).basePrice)) =>
            ApplyPromo(c, RouteOf(r).basePrice)[1]
              = AnsweredDiscount(response')
       /\ StoresWith(r, c) =>
            /\ bookings'[Len(bookings')].subtotal = RouteOf(r).basePrice
            /\ bookings'[Len(bookings')].discount
                 = ApplyPromo(c, RouteOf(r).basePrice)[1]
    ]_vars

\* validatePromoCode has just reported SAVE10 valid with the capped
\* discount that a stored booking of the same base price carries.
C40_Witness ==
  /\ response.op = "validatePromoCode"
  /\ response.code = 200
  /\ response.body.code = "SAVE10"
  /\ response.body.discount = promos["SAVE10"].maxDiscount
  /\ \E b \in 1..Len(bookings) :
       /\ bookings[b].promoCode = Some("SAVE10")
       /\ bookings[b].discount = response.body.discount
       /\ bookings[b].subtotal > 10 * bookings[b].discount

====
